---------------------------- MODULE Spec2Model ----------------------------
(***************************************************************************)
(* CyPlanAI: the risk scoring engine, the conversation server (threads,    *)
(* runs, event streams, persisted chat history), the agent graph, the     *)
(* fallback agent service, the knowledge base over the ontology, the       *)
(* vector store of the document library with its routes and batch          *)
(* ingestion, and the seeding of the ontology.                             *)
(*                                                                         *)
(* Texts are sequences of one-character strings, so that strip, lower,     *)
(* substring search and joining are computed and not assumed.  A nullable  *)
(* integer column is a set with at most one element ({} is NULL).          *)
(***************************************************************************)
EXTENDS Integers, Sequences, FiniteSets, TLC

VARIABLES
  score_in,        \* arguments handed to score()
  score_out,       \* value returned by score(), {} before the call
  threat_vals,     \* Threat rows: stored likelihood and impact per threatId
  controls,        \* controlIds of the Control rows that exist
  risk_out,        \* response of the last scoring path that ran
  agent_graphs,    \* thread id -> compiled agent instance (0: no entry)
  chat_threads,    \* thread id -> userId of its ChatThread row, or Absent
  chat_messages,   \* ChatMessage rows in insertion order
  agent_sessions,  \* AgentSession rows in insertion order
  agent_messages,  \* AgentMessage rows in insertion order
  run,             \* per request slot: the run it is handling
  history_response, \* body returned by the thread-history handler in this step
  thread_ids,      \* the thread ids that POST /threads has returned
  plans,           \* Plan rows: plan id -> frameworkId and summary
  agent_response,  \* result of the fallback agent call made in this step
  stream_view,     \* one streamed run: agent state, items in flight, snapshots sent
  kb_out,          \* the last knowledge-base call: its inputs and what it returned
  collection,      \* the Chroma collection "library_documents": its entries
  add_existing,    \* what the installed store does with add() of a stored id
  ingest_log,      \* the process_and_store calls made so far and their outcomes
  library_out,     \* response of the last call to a document route or script
  seed_tables,     \* the rows of the frameworks, prompts, controls, threats and
                   \* control_mappings tables that seeding writes
  seeders,         \* per process: where its seed_frameworks_and_prompts call is
  seed_calls       \* number of create_app() calls made so far

scoreVars == <<score_in, score_out>>
riskVars == <<threat_vals, controls, risk_out>>
serverVars == <<agent_graphs, chat_threads, chat_messages, agent_sessions,
                agent_messages, run, history_response, thread_ids, plans,
                agent_response>>
viewVars == <<stream_view>>
knowledgeVars == <<kb_out>>
libraryVars == <<collection, add_existing, ingest_log, library_out>>
seedVars == <<seed_tables, seeders, seed_calls>>

-----------------------------------------------------------------------------
(* Bounds of the model                                                      *)

ScoreSpan == 4      \* score() is applied to arguments in 1-ScoreSpan .. 5+ScoreSpan
MaxStored == 6      \* stored likelihood/impact values range over 0..MaxStored and NULL
MaxItems == 2       \* longest 'threats' list posted to the risk-score endpoint

-----------------------------------------------------------------------------
(* Python helpers                                                           *)

max(a, b) == IF a >= b THEN a ELSE b
min(a, b) == IF a <= b THEN a ELSE b

Null == {}
Some(n) == {n}
The(s) == CHOOSE x \in s : TRUE

\* Python's `x or d` on a nullable integer: NULL and 0 are falsy
OrDefault(x, d) == IF x = Null \/ x = Some(0) THEN d ELSE The(x)

LowerChar(c) ==
  LET upper == << "A", "B", "C", "D", "E", "F", "G", "H", "I", "J", "K", "L", "M",
                  "N", "O", "P", "Q", "R", "S", "T", "U", "V", "W", "X", "Y", "Z" >>
      lower == << "a", "b", "c", "d", "e", "f", "g", "h", "i", "j", "k", "l", "m",
                  "n", "o", "p", "q", "r", "s", "t", "u", "v", "w", "x", "y", "z" >>
  IN IF \E k \in 1..26 : upper[k] = c
       THEN lower[CHOOSE k \in 1..26 : upper[k] = c]
       ELSE c

\* str.lower()
Lower(s) == [k \in 1..Len(s) |-> LowerChar(s[k])]

\* `needle in hay`
Contains(hay, needle) ==
  \E k \in 0..(Len(hay) - Len(needle)) :
    \A j \in 1..Len(needle) : hay[k + j] = needle[j]

\* SQL `column ILIKE '%pattern%'`
ILike(column, pattern) == Contains(Lower(column), Lower(pattern))

\* all orders in which the elements of a finite set can be enumerated
Orderings(S) ==
  { q \in [1..Cardinality(S) -> S] : \A x \in S : \E k \in 1..Cardinality(S) : q[k] = x }

-----------------------------------------------------------------------------
(* Texts of the seed data and of the inputs                                 *)

PhishingName ==
  << "P", "h", "i", "s", "h", "i", "n", "g", " ", "l", "e", "a", "d", "i",
     "n", "g", " ", "t", "o", " ", "c", "r", "e", "d", "e", "n", "t", "i",
     "a", "l", " ", "t", "h", "e", "f", "t" >>
PoisoningName ==
  << "D", "a", "t", "a", " ", "p", "o", "i", "s", "o", "n", "i", "n", "g",
     " ", "(", "M", "L", ")" >>
HintPhishing ==
  << "R", "i", "s", "k", " ", "o", "f", " ", "P", "H", "I", "S", "H", "I",
     "N", "G" >>
HintBoth ==
  << "s", "c", "o", "r", "e", " ", "p", "o", "i", "s", "o", "n", " ", "a",
     "n", "d", " ", "p", "h", "i", "s", "h" >>
HintNone ==
  << "r", "i", "s", "k" >>
AskSummary ==
  << "G", "e", "n", "e", "r", "a", "t", "e", " ", "a", " ", "S", "u", "m",
     "m", "a", "r", "y" >>
AskFramework ==
  << "f", "r", "a", "m", "e", "w", "o", "r", "k", " ", "s", "u", "m", "m",
     "a", "r", "y" >>
AskChat ==
  << "h", "e", "l", "l", "o" >>
AskAll ==
  << "G", "E", "N", "E", "R", "A", "T", "E", " ", "t", "h", "e", " ", "S",
     "u", "m", "m", "a", "r", "y", ",", " ", "f", "r", "a", "m", "e", "w",
     "o", "r", "k", " ", "r", "i", "s", "k", " ", "s", "c", "o", "r", "e" >>
AskGenerateFramework ==
  << "g", "e", "n", "e", "r", "a", "t", "e", " ", "f", "r", "a", "m", "e",
     "w", "o", "r", "k" >>
AskSummaryRisk ==
  << "s", "u", "m", "m", "a", "r", "y", " ", "o", "f", " ", "r", "i", "s",
     "k" >>
AskFrameworkScore ==
  << "F", "r", "a", "m", "e", "w", "o", "r", "k", " ", "s", "c", "o", "r",
     "e" >>
AskNistAccess ==
  << "W", "h", "a", "t", " ", "d", "o", "e", "s", " ", "N", "I", "S", "T",
     " ", "C", "S", "F", " ", "s", "a", "y", " ", "a", "b", "o", "u", "t",
     " ", "a", "c", "c", "e", "s", "s", " ", "c", "o", "n", "t", "r", "o",
     "l", "?" >>
AskPhishing ==
  << "H", "o", "w", " ", "d", "o", " ", "w", "e", " ", "s", "t", "o", "p",
     " ", "P", "h", "i", "s", "h", "i", "n", "g", "?" >>
AskAccess ==
  << "W", "h", "o", " ", "m", "a", "n", "a", "g", "e", "s", " ", "A", "C",
     "C", "E", "S", "S", " ", "r", "i", "g", "h", "t", "s", "?" >>
AskEncryption ==
  << "e", "n", "c", "r", "y", "p", "t", "i", "o", "n", " ", "a", "t", " ",
     "r", "e", "s", "t" >>
AskGreeting ==
  << "h", "e", "l", "l", "o", " ", "t", "h", "e", "r", "e" >>
-----------------------------------------------------------------------------
(* Ontology rows used by the scoring paths (services/seed_data.py)          *)

ThreatIds == {"T-phishing", "T-poisoning"}

ThreatOrder == <<"T-phishing", "T-poisoning">>

ThreatRow(t) ==
  IF t = "T-phishing"
    THEN [name |-> PhishingName,
          description |->
            << "S", "o", "c", "i", "a", "l", "-", "e", "n", "g", "i", "n", "e",
              "e", "r", "i", "n", "g", " ", "e", "m", "a", "i", "l", "s", " ",
              "o", "r", " ", "m", "e", "s", "s", "a", "g", "e", "s", " ", "d",
              "e", "s", "i", "g", "n", "e", "d", " ", "t", "o", " ", "t", "r",
              "i", "c", "k", " ", "u", "s", "e", "r", "s", " ", "i", "n", "t",
              "o", " ", "r", "e", "v", "e", "a", "l", "i", "n", "g", " ", "c",
              "r", "e", "d", "e", "n", "t", "i", "a", "l", "s", " ", "o", "r",
              " ", "i", "n", "s", "t", "a", "l", "l", "i", "n", "g", " ", "m",
              "a", "l", "w", "a", "r", "e", "." >>,
          category |->
            << "S", "o", "c", "i", "a", "l", " ", "E", "n", "g", "i", "n", "e",
              "e", "r", "i", "n", "g" >>]
    ELSE [name |-> PoisoningName,
          description |->
            << "A", "d", "v", "e", "r", "s", "a", "r", "y", " ", "i", "n", "j",
              "e", "c", "t", "s", " ", "c", "r", "a", "f", "t", "e", "d", " ",
              "s", "a", "m", "p", "l", "e", "s", " ", "i", "n", "t", "o", " ",
              "t", "r", "a", "i", "n", "i", "n", "g", " ", "d", "a", "t", "a",
              " ", "t", "o", " ", "c", "o", "r", "r", "u", "p", "t", " ", "m",
              "o", "d", "e", "l", " ", "b", "e", "h", "a", "v", "i", "o", "r",
              ",", " ", "l", "e", "a", "d", "i", "n", "g", " ", "t", "o", " ",
              "m", "i", "s", "c", "l", "a", "s", "s", "i", "f", "i", "c", "a",
              "t", "i", "o", "n", "s", " ", "o", "r", " ", "b", "a", "c", "k",
              "d", "o", "o", "r", "s", "." >>,
          category |->
            << "A", "d", "v", "e", "r", "s", "a", "r", "i", "a", "l", " ", "M",
              "L" >>]

SeedVals(t) ==
  IF t = "T-phishing"
    THEN [likelihood |-> Some(4), impact |-> Some(4)]
    ELSE [likelihood |-> Some(2), impact |-> Some(5)]

ControlIds == {"PR.AC-3", "A.9.2.1", "A.8.1.1", "MAP-2"}

\* ControlMapping rows in insertion order: threatId, controlId
Mappings ==
  << [threatId |-> "T-phishing", controlId |-> "PR.AC-3",
      evidence_hint |->
        << "A", "c", "c", "e", "s", "s", " ", "r", "e", "v", "i", "e", "w",
           "s", ",", " ", "R", "B", "A", "C", " ", "p", "o", "l", "i", "c",
           "y", ",", " ", "p", "r", "i", "v", "i", "l", "e", "g", "e", "d",
           " ", "a", "c", "c", "e", "s", "s", " ", "a", "p", "p", "r", "o",
           "v", "a", "l", "s" >>],
     [threatId |-> "T-phishing", controlId |-> "A.9.2.1",
      evidence_hint |->
        << "U", "s", "e", "r", " ", "a", "c", "c", "e", "s", "s", " ", "m",
           "a", "n", "a", "g", "e", "m", "e", "n", "t", " ", "p", "r", "o",
           "c", "e", "d", "u", "r", "e", "s", ",", " ", "a", "u", "t", "h",
           "e", "n", "t", "i", "c", "a", "t", "i", "o", "n", " ", "l", "o",
           "g", "s" >>],
     [threatId |-> "T-poisoning", controlId |-> "A.8.1.1",
      evidence_hint |->
        << "A", "s", "s", "e", "t", " ", "i", "n", "v", "e", "n", "t", "o",
           "r", "y", " ", "i", "n", "c", "l", "u", "d", "i", "n", "g", " ",
           "d", "a", "t", "a", " ", "l", "i", "n", "e", "a", "g", "e", " ",
           "a", "n", "d", " ", "d", "a", "t", "a", "s", "e", "t", " ", "a",
           "p", "p", "r", "o", "v", "a", "l", " ", "l", "o", "g", "s" >>],
     [threatId |-> "T-poisoning", controlId |-> "MAP-2",
      evidence_hint |->
        << "A", "d", "v", "e", "r", "s", "a", "r", "i", "a", "l", " ", "r",
           "i", "s", "k", " ", "a", "s", "s", "e", "s", "s", "m", "e", "n",
           "t", ",", " ", "t", "r", "a", "i", "n", "i", "n", "g", " ", "d",
           "a", "t", "a", " ", "v", "a", "l", "i", "d", "a", "t", "i", "o",
           "n", " ", "p", "r", "o", "c", "e", "d", "u", "r", "e", "s" >>] >>

\* Control rows: the control id is written as its reference
ControlOrder == <<"PR.AC-3", "A.8.1.1", "A.9.2.1", "MAP-2">>

ControlRow(c) ==
  IF c = "PR.AC-3"
    THEN [reference |->
            << "P", "R", ".", "A", "C", "-", "3" >>,
          frameworkId |-> "nist-csf-001",
          title |->
            << "A", "c", "c", "e", "s", "s", " ", "c", "o", "n", "t", "r",
               "o", "l", " ", "l", "e", "a", "s", "t", " ", "p", "r", "i",
               "v", "i", "l", "e", "g", "e" >>,
          description |->
            << "R", "e", "m", "o", "t", "e", " ", "a", "c", "c", "e", "s",
               "s", " ", "i", "s", " ", "m", "a", "n", "a", "g", "e", "d",
               ".", " ", "E", "n", "s", "u", "r", "e", " ", "l", "e", "a",
               "s", "t", " ", "p", "r", "i", "v", "i", "l", "e", "g", "e",
               " ", "a", "n", "d", " ", "s", "e", "p", "a", "r", "a", "t",
               "i", "o", "n", " ", "o", "f", " ", "d", "u", "t", "i", "e",
               "s", " ", "f", "o", "r", " ", "a", "l", "l", " ", "u", "s",
               "e", "r", "s", "." >>,
          category |->
            << "P", "r", "o", "t", "e", "c", "t" >>]
  ELSE IF c = "A.8.1.1"
    THEN [reference |->
            << "A", ".", "8", ".", "1", ".", "1" >>,
          frameworkId |-> "iso-27001-001",
          title |->
            << "I", "n", "v", "e", "n", "t", "o", "r", "y", " ", "o", "f",
               " ", "a", "s", "s", "e", "t", "s" >>,
          description |->
            << "A", "s", "s", "e", "t", "s", " ", "a", "s", "s", "o", "c",
               "i", "a", "t", "e", "d", " ", "w", "i", "t", "h", " ", "i",
               "n", "f", "o", "r", "m", "a", "t", "i", "o", "n", " ", "a",
               "n", "d", " ", "i", "n", "f", "o", "r", "m", "a", "t", "i",
               "o", "n", " ", "p", "r", "o", "c", "e", "s", "s", "i", "n",
               "g", " ", "f", "a", "c", "i", "l", "i", "t", "i", "e", "s",
               " ", "s", "h", "a", "l", "l", " ", "b", "e", " ", "i", "d",
               "e", "n", "t", "i", "f", "i", "e", "d", " ", "a", "n", "d",
               " ", "a", "n", " ", "i", "n", "v", "e", "n", "t", "o", "r",
               "y", " ", "o", "f", " ", "t", "h", "e", "s", "e", " ", "a",
               "s", "s", "e", "t", "s", " ", "s", "h", "a", "l", "l", " ",
               "b", "e", " ", "d", "r", "a", "w", "n", " ", "u", "p", " ",
               "a", "n", "d", " ", "m", "a", "i", "n", "t", "a", "i", "n",
               "e", "d", "." >>,
          category |->
            << "A", "s", "s", "e", "t", " ", "M", "a", "n", "a", "g", "e",
               "m", "e", "n", "t" >>]
  ELSE IF c = "A.9.2.1"
    THEN [reference |->
            << "A", ".", "9", ".", "2", ".", "1" >>,
          frameworkId |-> "iso-27001-001",
          title |->
            << "U", "s", "e", "r", " ", "a", "c", "c", "e", "s", "s", " ",
               "m", "a", "n", "a", "g", "e", "m", "e", "n", "t" >>,
          description |->
            << "U", "s", "e", "r", " ", "a", "c", "c", "e", "s", "s", " ",
               "r", "i", "g", "h", "t", "s", " ", "t", "o", " ", "n", "e",
               "t", "w", "o", "r", "k", "s", " ", "a", "n", "d", " ", "n",
               "e", "t", "w", "o", "r", "k", " ", "s", "e", "r", "v", "i",
               "c", "e", "s", " ", "s", "h", "o", "u", "l", "d", " ", "b",
               "e", " ", "c", "o", "n", "t", "r", "o", "l", "l", "e", "d",
               " ", "v", "i", "a", " ", "a", " ", "f", "o", "r", "m", "a",
               "l", " ", "u", "s", "e", "r", " ", "a", "c", "c", "e", "s",
               "s", " ", "m", "a", "n", "a", "g", "e", "m", "e", "n", "t",
               " ", "p", "r", "o", "c", "e", "s", "s", "." >>,
          category |->
            << "A", "c", "c", "e", "s", "s", " ", "C", "o", "n", "t", "r",
               "o", "l" >>]
  ELSE
    [reference |->
            << "M", "A", "P", "-", "2" >>,
          frameworkId |-> "nist-ai-rmf-001",
          title |->
            << "A", "d", "v", "e", "r", "s", "a", "r", "i", "a", "l", " ",
               "r", "i", "s", "k", "s" >>,
          description |->
            << "I", "d", "e", "n", "t", "i", "f", "y", " ", "a", "n", "d",
               " ", "a", "s", "s", "e", "s", "s", " ", "a", "d", "v", "e",
               "r", "s", "a", "r", "i", "a", "l", " ", "r", "i", "s", "k",
               "s", " ", "i", "n", "c", "l", "u", "d", "i", "n", "g", " ",
               "d", "a", "t", "a", " ", "p", "o", "i", "s", "o", "n", "i",
               "n", "g", ",", " ", "m", "o", "d", "e", "l", " ", "e", "v",
               "a", "s", "i", "o", "n", ",", " ", "a", "n", "d", " ", "e",
               "x", "t", "r", "a", "c", "t", "i", "o", "n", " ", "a", "t",
               "t", "a", "c", "k", "s", "." >>,
          category |->
            << "M", "a", "p", "p", "i", "n", "g" >>]

\* Control.query.order_by(Control.frameworkId, Control.reference)
ControlsByFramework == <<"A.8.1.1", "A.9.2.1", "MAP-2", "PR.AC-3">>

\* NULL, 0, the two ends of the 1..5 scale, and the values above the scale
StoredVals == {Null} \cup {Some(n) : n \in {0, 1, 5} \cup (6..MaxStored)}

\* Threat.query.filter_by(name=...).first()
ThreatByName(name) ==
  IF \E k \in 1..Len(ThreatOrder) : ThreatRow(ThreatOrder[k]).name = name
    THEN {ThreatOrder[CHOOSE k \in 1..Len(ThreatOrder) :
            /\ ThreatRow(ThreatOrder[k]).name = name
            /\ \A j \in 1..(k - 1) : ThreatRow(ThreatOrder[j]).name # name]}
    ELSE {}

\* Threat.query.filter_by(threatId=...).first()
ThreatById(id) == IF id \in ThreatIds THEN {id} ELSE {}

-----------------------------------------------------------------------------
(* routes/reasoning.py                                                      *)

\* the product without the clamp
scoreUnclamped(likelihood, impact) == likelihood * impact

score(likelihood, impact) ==
  LET l == max(1, min(5, likelihood))
      i == max(1, min(5, impact))
  IN l * i

\* One entry of the posted 'threats' list.  threatId and name are {} when the
\* key is absent; likelihood and impact are {} when the key is absent.
ItemIds == {{}, {"T-phishing"}, {"T-unknown"}}
ItemNames == {{}, {PoisoningName}, {<< "z", "z", "z" >>}}
OverrideVals == {{}, {1 - ScoreSpan}, {5 + ScoreSpan}}
Items ==
  { it \in [threatId : ItemIds, name : ItemNames,
            likelihood : OverrideVals, impact : OverrideVals] :
      \/ it.threatId = {}
      \/ it.name = {}
      \/ (it.threatId = {"T-unknown"} /\ it.name = {PoisoningName}) }

\* a lookup that falls back to the name when the id is unknown
ResolveItemNameFallback(item) ==
  IF item.threatId # {} /\ ThreatById(The(item.threatId)) # {}
    THEN ThreatById(The(item.threatId))
  ELSE IF item.name # {} THEN ThreatByName(The(item.name))
  ELSE {}

\* t = Threat.query.get(tid) if tid else (filter_by(name=name).first() if name else None)
ResolveItem(item) ==
  IF item.threatId # {} THEN ThreatById(The(item.threatId))
  ELSE IF item.name # {} THEN ThreatByName(The(item.name))
  ELSE {}

RecommendedControls(t) ==
  LET mine == SelectSeq(Mappings, LAMBDA m : m.threatId = t)
      kept == SelectSeq(mine, LAMBDA m : m.controlId \in controls)
  IN [k \in 1..Len(kept) |-> kept[k].controlId]

ItemResult(item) ==
  LET t == The(ResolveItem(item))
      l == IF item.likelihood # {} THEN The(item.likelihood)
           ELSE OrDefault(threat_vals[t].likelihood, 2)
      i == IF item.impact # {} THEN The(item.impact)
           ELSE OrDefault(threat_vals[t].impact, 3)
  IN [threat |-> t, likelihood |-> l, impact |-> i, score |-> score(l, i),
      recommended_controls |-> RecommendedControls(t)]

RECURSIVE RiskScoreResults(_)
RiskScoreResults(items) ==
  IF items = <<>> THEN <<>>
  ELSE LET rest == RiskScoreResults(Tail(items))
       IN IF ResolveItem(Head(items)) = {} THEN rest
          ELSE <<ItemResult(Head(items))>> \o rest

\* POST /risk-score
risk_score(items) ==
  /\ risk_out' = [path |-> "endpoint", request |-> items,
                  results |-> RiskScoreResults(items)]
  /\ UNCHANGED <<threat_vals, controls>>

-----------------------------------------------------------------------------
(* services/agent_service.py: the fallback agent's risk_score tool          *)

\* the keyword -> threat name dict, in insertion order
HintMapping ==
  << [k |-> << "p", "h", "i", "s", "h" >>, name |-> PhishingName],
     [k |-> << "p", "o", "i", "s", "o", "n" >>, name |-> PoisoningName] >>

SeenNames(hints) ==
  { HintMapping[m].name : m \in { m \in 1..Len(HintMapping) :
      \E h \in 1..Len(hints) : Contains(Lower(hints[h]), HintMapping[m].k) } }

ThreatScore(t) ==
  OrDefault(threat_vals[t].likelihood, 2) * OrDefault(threat_vals[t].impact, 3)

\* results for the names of `seen`, enumerated in the order `order`
ToolRiskScoreResults(order) ==
  LET found == SelectSeq(order, LAMBDA name : ThreatByName(name) # {})
  IN [k \in 1..Len(found) |->
        [threat |-> The(ThreatByName(found[k])),
         score |-> ThreatScore(The(ThreatByName(found[k])))]]

\* AgentService._tool_risk_score(hints); a Python set has no fixed order
tool_risk_score(hints) ==
  /\ \E order \in Orderings(SeenNames(hints)) :
       risk_out' = [path |-> "fallback", results |-> ToolRiskScoreResults(order)]
  /\ UNCHANGED <<threat_vals, controls>>

-----------------------------------------------------------------------------
(* langgraph_agent.py: the tool-calling agent's risk assessment tool        *)

MatchesKeywords(t, keywords) ==
  \/ ILike(ThreatRow(t).name, Lower(keywords))
  \/ ILike(ThreatRow(t).description, Lower(keywords))
  \/ ILike(ThreatRow(t).category, Lower(keywords))

AssessmentLines(keywords) ==
  LET hit == SelectSeq(ThreatOrder, LAMBDA t : MatchesKeywords(t, keywords))
  IN [k \in 1..Len(hit) |->
        [threat |-> hit[k],
         score |-> ThreatScore(hit[k]),
         likelihood |-> threat_vals[hit[k]].likelihood,
         impact |-> threat_vals[hit[k]].impact]]

\* get_risk_assessment_tool(keywords): "No threats found" or one line per threat
get_risk_assessment_tool(keywords) ==
  /\ risk_out' = [path |-> "tool", results |-> AssessmentLines(keywords)]
  /\ UNCHANGED <<threat_vals, controls>>

-----------------------------------------------------------------------------
(* Text and message content                                                 *)

\* str.strip()
RECURSIVE lstrip(_)
lstrip(s) == IF s # <<>> /\ Head(s) = " " THEN lstrip(Tail(s)) ELSE s

RECURSIVE rstrip(_)
rstrip(s) ==
  IF s # <<>> /\ s[Len(s)] = " " THEN rstrip(SubSeq(s, 1, Len(s) - 1)) ELSE s

strip(s) == rstrip(lstrip(s))

\* " ".join(parts)
RECURSIVE JoinSpace(_)
JoinSpace(parts) ==
  IF parts = <<>> THEN <<>>
  ELSE IF Len(parts) = 1 THEN parts[1]
  ELSE parts[1] \o <<" ">> \o JoinSpace(Tail(parts))

\* message content: a plain string, or a list of typed parts
Str(s) == [kind |-> "str", text |-> s, items |-> <<>>]
Parts(items) == [kind |-> "list", text |-> <<>>, items |-> items]
TextPart(s) == [type |-> "text", text |-> s]
OtherPart(type) == [type |-> type, text |-> <<>>]

TextParts(items) ==
  LET kept == SelectSeq(items, LAMBDA item : item.type = "text")
  IN [k \in 1..Len(kept) |-> kept[k].text]

\* create_run.extract_text
extract_text(content) ==
  IF content.kind = "str" THEN content.text
  ELSE JoinSpace(TextParts(content.items))

\* str(content) where only its emptiness is read afterwards: the repr of a
\* non-empty list is a non-empty text
ReprOfList == <<"[", "]">>
PyStr(content) == IF content.kind = "str" THEN content.text ELSE ReprOfList

\* truthiness of a message content
Truthy(content) ==
  IF content.kind = "str" THEN content.text # <<>> ELSE content.items # <<>>

-----------------------------------------------------------------------------
(* Conversation server: identifiers and inputs (langgraph_server.py)        *)

None == "None"

Threads == {"t1", "t2"}
Users == {"u1", "u2"}
Slots == {"r1", "r2"}          \* requests the server handles concurrently

MaxChat == 3        \* rows the chat_messages table may hold
MaxLog == 3         \* rows the agent_messages table may hold

BlankText == <<" ">>
TextA == <<"a">>
TextB == <<"b">>

\* one entry of the posted message list
Msg(type, role, content) == [type |-> type, role |-> role, content |-> content]

RequestLists ==
  { <<>>,
    << Msg({"human"}, {}, Str(BlankText)) >>,
    << Msg({}, {"user"}, Str(TextA)) >>,
    << Msg({"human"}, {}, Parts(<<TextPart(TextA), OtherPart("image_url")>>)) >>,
    << Msg({}, {"assistant"}, Str(TextA)), Msg({"human"}, {"ignored"}, Str(TextB)) >>,
    << Msg({}, {"user"}, Str(TextA)), Msg({"ai"}, {}, Str(TextB)) >>,
    << Msg({}, {"system"}, Str(TextA)) >> }

\* request bodies: the SDK form (input.messages), the simple form (messages)
RequestBodies ==
  { [input |-> {}, messages |-> {}] }
    \cup { [input |-> {}, messages |-> {l}] : l \in RequestLists }
    \cup { [input |-> {l}, messages |-> {}] :
             l \in { <<>>, << Msg({"human"}, {}, Str(TextA)) >> } }
    \cup { [input |-> {<<>>}, messages |-> {<< Msg({"human"}, {}, Str(TextA)) >>}] }

\* a Python value used as a condition: None and '' are false
IsSet(x) == x \notin {None, ""}

PlanIds == {"p1"}

\* config.get("user_id"), config.get("session_id"), config.get("plan_id")
Configs == [user_id : {None, ""} \cup Users, session_id : {None, "", "s1"},
            plan_id : {None} \cup PlanIds]

\* messages the language model may return: content and number of tool calls
AIMsg(content, n) == [type |-> "ai", content |-> content, tool_calls |-> n]
LLMReplies ==
  { AIMsg(Str(<<>>), 0), AIMsg(Str(BlankText), 0), AIMsg(Str(TextA), 0),
    AIMsg(Str(TextB), 0), AIMsg(Parts(<<TextPart(TextA), OtherPart("tool_use")>>), 0),
    AIMsg(Str(<<>>), 1), AIMsg(Str(TextA), 2) }

Exceptions == {"LLMError", "ToolError", "DBError"}

\* Plan and Framework rows; the plan's prompts and responses are not told apart
FrameworkIds == {"nist-csf-001", "iso-27001-001", "nist-ai-rmf-001"}

FrameworkOrder == <<"nist-csf-001", "iso-27001-001", "nist-ai-rmf-001">>

FrameworkRow(f) ==
  IF f = "nist-csf-001"
    THEN [name |->
            << "N", "I", "S", "T", " ", "C", "y", "b", "e", "r", "s", "e",
               "c", "u", "r", "i", "t", "y", " ", "F", "r", "a", "m", "e",
               "w", "o", "r", "k" >>,
          type |->
            << "N", "I", "S", "T", "_", "C", "S", "F" >>,
          description |->
            << "A", " ", "v", "o", "l", "u", "n", "t", "a", "r", "y", " ",
               "f", "r", "a", "m", "e", "w", "o", "r", "k", " ", "b", "a",
               "s", "e", "d", " ", "o", "n", " ", "e", "x", "i", "s", "t",
               "i", "n", "g", " ", "s", "t", "a", "n", "d", "a", "r", "d",
               "s", ",", " ", "g", "u", "i", "d", "e", "l", "i", "n", "e",
               "s", ",", " ", "a", "n", "d", " ", "p", "r", "a", "c", "t",
               "i", "c", "e", "s", " ", "f", "o", "r", " ", "o", "r", "g",
               "a", "n", "i", "z", "a", "t", "i", "o", "n", "s", " ", "t",
               "o", " ", "b", "e", "t", "t", "e", "r", " ", "m", "a", "n",
               "a", "g", "e", " ", "a", "n", "d", " ", "r", "e", "d", "u",
               "c", "e", " ", "c", "y", "b", "e", "r", "s", "e", "c", "u",
               "r", "i", "t", "y", " ", "r", "i", "s", "k", "." >>,
          version |->
            << "1", ".", "1" >>]
  ELSE IF f = "iso-27001-001"
    THEN [name |->
            << "I", "S", "O", "/", "I", "E", "C", " ", "2", "7", "0", "0",
               "1", ":", "2", "0", "1", "3" >>,
          type |->
            << "I", "S", "O", "_", "2", "7", "0", "0", "1" >>,
          description |->
            << "A", "n", " ", "i", "n", "t", "e", "r", "n", "a", "t", "i",
               "o", "n", "a", "l", " ", "s", "t", "a", "n", "d", "a", "r",
               "d", " ", "f", "o", "r", " ", "m", "a", "n", "a", "g", "i",
               "n", "g", " ", "i", "n", "f", "o", "r", "m", "a", "t", "i",
               "o", "n", " ", "s", "e", "c", "u", "r", "i", "t", "y", " ",
               "t", "h", "a", "t", " ", "s", "p", "e", "c", "i", "f", "i",
               "e", "s", " ", "r", "e", "q", "u", "i", "r", "e", "m", "e",
               "n", "t", "s", " ", "f", "o", "r", " ", "e", "s", "t", "a",
               "b", "l", "i", "s", "h", "i", "n", "g", ",", " ", "i", "m",
               "p", "l", "e", "m", "e", "n", "t", "i", "n", "g", ",", " ",
               "m", "a", "i", "n", "t", "a", "i", "n", "i", "n", "g", ",",
               " ", "a", "n", "d", " ", "c", "o", "n", "t", "i", "n", "u",
               "a", "l", "l", "y", " ", "i", "m", "p", "r", "o", "v", "i",
               "n", "g", " ", "a", "n", " ", "i", "n", "f", "o", "r", "m",
               "a", "t", "i", "o", "n", " ", "s", "e", "c", "u", "r", "i",
               "t", "y", " ", "m", "a", "n", "a", "g", "e", "m", "e", "n",
               "t", " ", "s", "y", "s", "t", "e", "m", "." >>,
          version |->
            << "2", "0", "1", "3" >>]
  ELSE
    [name |->
            << "N", "I", "S", "T", " ", "A", "I", " ", "R", "i", "s", "k",
               " ", "M", "a", "n", "a", "g", "e", "m", "e", "n", "t", " ",
               "F", "r", "a", "m", "e", "w", "o", "r", "k" >>,
          type |->
            << "N", "I", "S", "T", "_", "A", "I", "_", "R", "M", "F" >>,
          description |->
            << "A", " ", "f", "r", "a", "m", "e", "w", "o", "r", "k", " ",
               "t", "o", " ", "h", "e", "l", "p", " ", "o", "r", "g", "a",
               "n", "i", "z", "a", "t", "i", "o", "n", "s", " ", "m", "a",
               "n", "a", "g", "e", " ", "r", "i", "s", "k", "s", " ", "a",
               "s", "s", "o", "c", "i", "a", "t", "e", "d", " ", "w", "i",
               "t", "h", " ", "A", "I", " ", "s", "y", "s", "t", "e", "m",
               "s", "." >>,
          version |->
            << "1", ".", "0" >>]

SeedPlans ==
  [p \in PlanIds |-> [frameworkId |-> "nist-csf-001", summary |-> {},
                      status |-> "in_progress", completed_at |-> {}]]

NoAgentResponse == [intent |-> None, message |-> <<>>, raised |-> {}]

\* what the conversation server never touches
OtherFrame ==
  /\ agent_response' = NoAgentResponse
  /\ UNCHANGED <<scoreVars, riskVars, plans, viewVars, knowledgeVars, libraryVars, seedVars>>

-----------------------------------------------------------------------------
(* Tables and queries                                                       *)

Absent == "absent"

\* rows of `rows` (a table in insertion order) that satisfy Test, ordered by
\* created_at ascending
RowsAsc(rows, Test(_)) ==
  LET idx == { k \in 1..Len(rows) : Test(rows[k]) }
      Rank(k) == Cardinality({ j \in idx : rows[j].created_at < rows[k].created_at
                                            \/ (rows[j].created_at = rows[k].created_at /\ j <= k) })
  IN [n \in 1..Cardinality(idx) |-> rows[CHOOSE k \in idx : Rank(k) = n]]

\* ChatMessage.query.filter_by(threadId, role).order_by(created_at.desc()).first()
LatestMessage(rows, threadId, role) ==
  LET asc == RowsAsc(rows, LAMBDA m : m.threadId = threadId /\ m.role = role)
  IN IF asc = <<>> THEN {} ELSE {asc[Len(asc)]}

ChatRow(rows, threadId, role, content) ==
  [threadId |-> threadId, role |-> role, content |-> content,
   created_at |-> Len(rows) + 1]

-----------------------------------------------------------------------------
(* create_run: conversion of the posted messages                            *)

\* msg.get("type") or msg.get("role", "")
MsgType(msg) ==
  IF msg.type # {} THEN The(msg.type)
  ELSE IF msg.role # {} THEN The(msg.role) ELSE ""

\* content of a posted message: a list is flattened to its text parts
MsgContent(msg) ==
  IF msg.content.kind = "list"
    THEN JoinSpace(TextParts(msg.content.items))
    ELSE msg.content.text

RECURSIVE ToLangchain(_)
ToLangchain(messages_data) ==
  IF messages_data = <<>> THEN <<>>
  ELSE LET msg == Head(messages_data)
           rest == ToLangchain(Tail(messages_data))
       IN IF MsgType(msg) \in {"user", "human"}
            THEN <<[type |-> "human", content |-> Str(MsgContent(msg)), tool_calls |-> 0]>> \o rest
          ELSE IF MsgType(msg) \in {"assistant", "ai"}
            THEN <<[type |-> "ai", content |-> Str(MsgContent(msg)), tool_calls |-> 0]>> \o rest
          ELSE rest

\* messages_data: input["messages"] when input carries the key, else messages
MessagesData(body) ==
  IF body.input # {} THEN The(body.input)
  ELSE IF body.messages # {} /\ The(body.messages) # <<>> THEN The(body.messages)
  ELSE <<>>

\* The message list of an agent state is kept as the three things that are
\* read from it: whether it holds any human/ai message, its last AIMessage
\* and its last message.
LastOfType(msgs, type) ==
  LET idx == { k \in 1..Len(msgs) : msgs[k].type = type }
  IN IF idx = {} THEN {} ELSE { msgs[CHOOSE k \in idx : \A j \in idx : j <= k] }

StateOf(msgs) ==
  [any |-> msgs # <<>>,
   lastAI |-> LastOfType(msgs, "ai"),
   last |-> IF msgs = <<>> THEN {} ELSE {msgs[Len(msgs)]}]

EmptyState == StateOf(<<>>)

-----------------------------------------------------------------------------
(* langgraph_agent.py: the agent graph                                      *)

\* a routing function that ends the graph whatever the last message carries
should_continue_always_end(state) == "END"

\* should_continue(state): "tools" iff the last message carries tool calls
should_continue(state) ==
  IF state.last # {} /\ The(state.last).type = "ai" /\ The(state.last).tool_calls > 0
    THEN "tools"
    ELSE "END"

\* agent_node: the model's response is appended to the messages
AfterAgent(state, response) ==
  [any |-> TRUE, lastAI |-> {response}, last |-> {response}]

ToolMessage == [type |-> "tool", content |-> Str(TextA), tool_calls |-> 0]

\* ToolNode: one ToolMessage per requested call is appended
AfterTools(state) == [state EXCEPT !.last = {ToolMessage}]

\* edges of the compiled graph: entry point, conditional edge, tools -> agent
EntryPoint == "agent"
NextNode(node, state) ==
  IF node = "agent" THEN should_continue(state) ELSE "agent"

-----------------------------------------------------------------------------
(* create_run.stream_events: locals of one run                              *)

IdleRun ==
  [pc |-> "idle", thread |-> "t1", agent_graph |-> 0,
   last_message |-> {}, session_id |-> None,
   input |-> EmptyState, state |-> EmptyState, node |-> "none",
   last_assistant_message |-> {}, accumulated_content |-> <<>>,
   all_messages_seen |-> FALSE, streamed_text |-> FALSE,
   exhausted |-> FALSE, invocations |-> 0,
   ai_saved |-> FALSE, exc |-> {}, error |-> {},
   ev_end |-> 0, ev_error |-> 0, ev_last |-> "none"]

\* events are counted up to "two or more"
Bump(n) == min(n + 1, 2)

\* yield {"event": kind, ...}
Emit(rec, kind) ==
  [rec EXCEPT !.ev_last = kind,
              !.ev_end = IF kind = "end" THEN Bump(@) ELSE @,
              !.ev_error = IF kind = "error" THEN Bump(@) ELSE @]

\* a handler that swallows the exception and ends the stream without an event
CaughtSilently(rec, e) ==
  [rec EXCEPT !.exc = {e}, !.pc = "yield_last"]

\* except Exception as e: yield {"event": "error", "data": {"error": str(e)}}
Caught(rec, e) ==
  [Emit(rec, "error") EXCEPT !.exc = {e}, !.error = {e}, !.pc = "yield_last"]

\* text of an AIMessage as accumulated while streaming
AccumulatedOf(content) ==
  IF content.kind = "str" THEN content.text
  ELSE JoinSpace(TextParts(content.items))

\* body of the `async for` loop for one streamed item.  raw is {} when the
\* payload carries no message list, else {[any, lastAI]} of that list;
\* all_messages_seen is kept as "is not empty".  streamed_text remembers
\* that some AIMessage with text went through the loop.
HandleItem(rec, mode, raw) ==
  LET seen == IF raw = {} THEN rec.all_messages_seen
              ELSE IF mode = "values" \/ ~rec.all_messages_seen THEN The(raw).any
              ELSE TRUE
      ai == IF raw = {} THEN {} ELSE The(raw).lastAI
      r1 == [rec EXCEPT !.all_messages_seen = seen,
                        !.streamed_text =
                            @ \/ (ai # {} /\ AccumulatedOf(The(ai).content) # <<>>),
                        !.accumulated_content =
                            IF ai = {} THEN @ ELSE AccumulatedOf(The(ai).content),
                        !.last_assistant_message = IF ai = {} THEN @ ELSE ai]
  IN IF seen THEN Emit(r1, mode) ELSE r1

ValuesItem(state) == {[any |-> state.any, lastAI |-> state.lastAI]}

\* a test that looks at the message only
NeedsRecoveryNoMessage(rec) == rec.last_assistant_message = {}

\* reply must be persisted / recovery is needed
NeedsRecovery(rec) ==
  rec.accumulated_content = <<>> \/ rec.last_assistant_message = {}

-----------------------------------------------------------------------------
(* create_run.stream_events: message ids of the streamed snapshots         *)

MaxTurns == 2       \* times the agent node runs in one streamed run

\* A message of the agent state.  uid is its position in the state's message
\* list (messages are only appended), id is the message's own id, client_id the
\* additional_kwargs["client_message_id"] set by create_run.
RawMsg(uid, type, id, client_id, text) ==
  [uid |-> uid, type |-> type, id |-> id, client_id |-> client_id, text |-> text]

\* ids sent to the client: the message's own id, or f"{msg_type}-{content_hash}"
\* with an optional f"-{counter}".  The 12 hex digits of the md5 digest are kept
\* as the text they are computed from.
NativeId(x) == [native |-> x, type |-> None, hashed |-> <<>>, counter |-> 0]
SyntheticId(type, hashed, counter) ==
  [native |-> None, type |-> type, hashed |-> hashed, counter |-> counter]

\* msg.id, else additional_kwargs client_message_id or id, as a string
OwnId(msg) ==
  IF IsSet(msg.id) THEN msg.id
  ELSE IF IsSet(msg.client_id) THEN msg.client_id ELSE ""

\* the id format_langchain_messages gives to messages[idx] when the ids of
\* `seen` are taken
MessageId(msg, idx, seen) ==
  LET own == OwnId(msg)
      hashed == <<msg.text, msg.type, idx>>
      free == { c \in 1..(Cardinality(seen) + 1) :
                  SyntheticId(msg.type, hashed, c) \notin seen }
  IN IF IsSet(own) /\ NativeId(own) \notin seen THEN NativeId(own)
     ELSE IF SyntheticId(msg.type, hashed, 0) \notin seen
       THEN SyntheticId(msg.type, hashed, 0)
     ELSE SyntheticId(msg.type, hashed, CHOOSE c \in free : \A d \in free : c <= d)

\* format_langchain_messages(messages, existing_ids): AI and human messages
\* only, each with an id that is neither in existing_ids nor given before
RECURSIVE FormatFrom(_, _, _)
FormatFrom(messages, idx, seen) ==
  IF idx >= Len(messages) THEN <<>>
  ELSE LET msg == messages[idx + 1]
       IN IF msg.type \in {"ai", "human"}
            THEN LET msg_id == MessageId(msg, idx, seen)
                 IN <<[id |-> msg_id, type |-> msg.type, text |-> msg.text,
                       uid |-> msg.uid]>>
                      \o FormatFrom(messages, idx + 1, seen \cup {msg_id})
            ELSE FormatFrom(messages, idx + 1, seen)

format_langchain_messages(messages, existing_ids) ==
  FormatFrom(messages, 0, existing_ids)

\* all_messages_seen after an item of the stream: replaced by a "values" item or
\* when still empty, else each formatted message replaces the entry that has
\* its id or is appended
RECURSIVE MergeInto(_, _, _)
MergeInto(all_seen, id_to_index, formatted) ==
  IF formatted = <<>> THEN all_seen
  ELSE LET new_msg == Head(formatted)
           at == { k \in id_to_index : all_seen[k].id = new_msg.id }
       IN MergeInto(IF at # {} THEN [all_seen EXCEPT ![CHOOSE k \in at : TRUE] = new_msg]
                    ELSE Append(all_seen, new_msg),
                    id_to_index, Tail(formatted))

MergeMessages(all_seen, mode, raw_messages) ==
  LET existing_ids == { all_seen[k].id : k \in 1..Len(all_seen) }
      formatted == format_langchain_messages(raw_messages, existing_ids)
  IN IF mode = "values" \/ all_seen = <<>> THEN formatted
     ELSE MergeInto(all_seen, 1..Len(all_seen), formatted)

\* One item of agent_graph.astream(stream_mode=["values", "updates"]): a
\* "values" item carries the whole message list, an "updates" item the messages
\* its node returned (read by the server for the agent node only).
StreamItem(mode, node, messages) == [mode |-> mode, node |-> node, messages |-> messages]

RawMessages(item) ==
  IF item.mode = "values" \/ item.node = "agent" THEN {item.messages} ELSE {}

IdleView ==
  [messages |-> <<>>, node |-> "none", turns |-> 0, pending |-> <<>>,
   all_messages_seen |-> <<>>, snapshots |-> <<>>]

\* the posted messages as they reach the graph: add_messages may have given a
\* message an id, create_run may have copied the client's id
ViewRequests ==
  { <<RawMsg(1, "human", id, client_id, text)>> :
      id \in {None, "m1"}, client_id \in {None, "c1"}, text \in {TextA, TextB} }
    \cup { <<RawMsg(1, "human", None, None, TextA), RawMsg(2, "human", None, None, TextA)>>,
           <<RawMsg(1, "ai", None, "c1", TextA), RawMsg(2, "human", None, "c1", TextB)>> }

\* ids the model provider gives to its responses
ResponseIds == <<"run-1", "run-2", "run-3", "run-4">>

\* the two items a step of the graph produces, in either order
StepItems(node, returned, messages) ==
  { <<StreamItem("updates", node, returned), StreamItem("values", node, messages)>>,
    <<StreamItem("values", node, messages), StreamItem("updates", node, returned)>> }

\* astream starts: the input state is the first item
ViewStart(request) ==
  /\ stream_view = IdleView
  /\ stream_view' = [IdleView EXCEPT !.messages = request, !.node = "agent",
                       !.pending = <<StreamItem("values", "input", request)>>]

\* the agent node appends the model's message
ViewAgent(native, text, tool_calls) ==
  /\ stream_view.node = "agent" /\ stream_view.pending = <<>>
  /\ stream_view.turns < MaxTurns
  /\ LET id == IF native THEN ResponseIds[stream_view.turns + 1] ELSE None
         response == RawMsg(Len(stream_view.messages) + 1, "ai", id, None, text)
         messages == Append(stream_view.messages, response)
     IN \E items \in StepItems("agent", <<response>>, messages) :
          stream_view' = [stream_view EXCEPT
                            !.messages = messages, !.turns = @ + 1,
                            !.node = IF tool_calls > 0 THEN "tools" ELSE "END",
                            !.pending = items]

\* the tools node appends one ToolMessage
ViewTools ==
  /\ stream_view.node = "tools" /\ stream_view.pending = <<>>
  /\ LET result == RawMsg(Len(stream_view.messages) + 1, "tool", None, None, TextA)
         messages == Append(stream_view.messages, result)
     IN \E items \in StepItems("tools", <<result>>, messages) :
          stream_view' = [stream_view EXCEPT !.messages = messages, !.node = "agent",
                                             !.pending = items]

\* body of the `async for` loop for the next item: merge, then yield the
\* snapshot unless it holds no message
ViewItem ==
  /\ stream_view.pending # <<>>
  /\ LET item == Head(stream_view.pending)
         raw == RawMessages(item)
         all_seen == IF raw = {} THEN stream_view.all_messages_seen
                     ELSE MergeMessages(stream_view.all_messages_seen, item.mode, The(raw))
     IN stream_view' = [stream_view EXCEPT
                          !.pending = Tail(@),
                          !.all_messages_seen = all_seen,
                          !.snapshots = IF all_seen = <<>> THEN @ ELSE Append(@, all_seen)]

-----------------------------------------------------------------------------
(* Conversation server: handlers                                            *)

NoResponse == [thread |-> None, body |-> <<>>]

Active == {"astream", "ainvoke", "yield_final", "yield_last"}
Finished == {"idle", "closed", "dropped", "rejected"}

\* runs that have not reached their persistence step may still insert a row
MayInsert == { r \in Slots : run[r].pc \in {"astream", "ainvoke", "yield_final"} }

\* a lookup that compiles a new instance for every request
EnsureGraphFresh(graphs, t) ==
  [graphs EXCEPT ![t] = 1 + graphs[t] + Cardinality({x \in Threads : graphs[x] # 0})]

\* if thread_id not in agent_graphs: agent_graphs[thread_id] = create_agent_graph(...)
EnsureGraph(graphs, t) ==
  IF graphs[t] = 0
    THEN [graphs EXCEPT ![t] = 1 + Cardinality({x \in Threads : graphs[x] # 0})]
    ELSE graphs

\* a refresh that takes the user id of every request that carries one
ensure_chat_thread_overwrite(threads, t, user_id) ==
  IF threads[t] = Absent \/ IsSet(user_id) THEN [threads EXCEPT ![t] = user_id]
  ELSE threads

\* create_run.ensure_chat_thread(user_id)
ensure_chat_thread(threads, t, user_id) ==
  IF threads[t] = Absent THEN [threads EXCEPT ![t] = user_id]
  ELSE IF IsSet(user_id) /\ ~IsSet(threads[t]) THEN [threads EXCEPT ![t] = user_id]
  ELSE threads

\* a handler that leaves the human message to a later step
StoreHumanSkipped(rows, t, msgs) == rows

\* "Store the latest human message before streaming starts"
StoreHuman(rows, t, msgs) ==
  IF msgs # <<>> /\ msgs[Len(msgs)].type = "human"
    THEN LET human_text == extract_text(msgs[Len(msgs)].content)
             latest == LatestMessage(rows, t, "human")
         IN IF strip(human_text) # <<>>
               /\ (latest = {} \/ The(latest).content # human_text)
              THEN Append(rows, ChatRow(rows, t, "human", human_text))
              ELSE rows
    ELSE rows

\* the table has room for the rows of the runs in flight and of this run
HasRoom(r, t, body) ==
  LET stored == StoreHuman(chat_messages, t, ToLangchain(MessagesData(body)))
  IN Len(stored) + Cardinality(MayInsert \ {r}) + 1 <= MaxChat

\* rows of agent_messages the runs in flight may still add
Reserved(r) == 2 * Cardinality({ x \in MayInsert \ {r} : IsSet(run[x].session_id) })

LogRoom(r, n) == Len(agent_messages) + Reserved(r) + n <= MaxLog

\* POST /threads/{thread_id}/runs, up to the return of the StreamingResponse
\* and the start of stream_events
create_run(r, t, body, config) ==
  LET messages_data == MessagesData(body)
      langchain_messages == ToLangchain(messages_data)
  IN /\ run[r].pc \in Finished
     /\ HasRoom(r, t, body)
     /\ IsSet(config.session_id) => LogRoom(r, 2)
     /\ agent_graphs' = EnsureGraph(agent_graphs, t)
     /\ IF messages_data = <<>>
          THEN \* HTTPException(status_code=400)
               /\ run' = [run EXCEPT ![r] =
                    [IdleRun EXCEPT !.pc = "rejected", !.thread = t,
                                    !.agent_graph = agent_graphs'[t]]]
               /\ UNCHANGED <<chat_threads, chat_messages>>
          ELSE /\ chat_threads' = ensure_chat_thread(chat_threads, t, config.user_id)
               /\ chat_messages' = StoreHuman(chat_messages, t, langchain_messages)
               /\ run' = [run EXCEPT ![r] =
                    [IdleRun EXCEPT !.pc = "astream", !.thread = t,
                                    !.agent_graph = agent_graphs'[t],
                                    !.last_message = StateOf(langchain_messages).last,
                                    !.session_id = config.session_id,
                                    !.input = StateOf(langchain_messages),
                                    !.state = StateOf(langchain_messages),
                                    !.node = "start",
                                    !.invocations = 1]]
     /\ history_response' = NoResponse
     /\ UNCHANGED thread_ids
     /\ UNCHANGED <<agent_sessions, agent_messages>>
     /\ OtherFrame

\* rows added for the session ("Save messages to database if session_id is available")
SessionRows(rec) ==
  LET user_rows ==
        IF rec.last_message # {} /\ The(rec.last_message).type = "human"
          THEN <<[sessionId |-> rec.session_id, role |-> "user",
                  content |-> The(rec.last_message).content.text]>>
          ELSE <<>>
      lam == rec.last_assistant_message
      assistant_rows ==
        IF lam # {} /\ The(lam).content.kind = "str" /\ The(lam).content.text # <<>>
          THEN <<[sessionId |-> rec.session_id, role |-> "assistant",
                  content |-> The(lam).content.text]>>
          ELSE <<>>
  IN IF IsSet(rec.session_id) THEN user_rows \o assistant_rows ELSE <<>>

\* "Persist assistant reply for thread history": the row to insert, if any
AssistantText(rec) == extract_text(The(rec.last_assistant_message).content)

QueriesLatestAi(rec) ==
  rec.last_assistant_message # {} /\ strip(AssistantText(rec)) # <<>>

\* an insert that does not look at the latest stored ai message
InsertsAiAlways(rows, rec) == QueriesLatestAi(rec)

InsertsAi(rows, rec) ==
  /\ QueriesLatestAi(rec)
  /\ LET latest == LatestMessage(rows, rec.thread, "ai")
     IN latest = {} \/ The(latest).content # AssistantText(rec)

\* stream_events from the persistence of the session messages to the yield of
\* 'end'; outcome says where, if anywhere, the database raises
Finish(r, rec, outcome) ==
  \/ /\ outcome = "ok"
     /\ agent_messages' = agent_messages \o SessionRows(rec)
     /\ chat_messages' =
          IF InsertsAi(chat_messages, rec)
            THEN Append(chat_messages,
                        ChatRow(chat_messages, rec.thread, "ai", AssistantText(rec)))
            ELSE chat_messages
     /\ run' = [run EXCEPT ![r] =
          [Emit(rec, "end") EXCEPT !.pc = "yield_last",
                                   !.ai_saved = InsertsAi(chat_messages, rec)]]
  \/ /\ outcome = "session_commit_raises"
     /\ IsSet(rec.session_id)
     /\ UNCHANGED <<agent_messages, chat_messages>>
     /\ run' = [run EXCEPT ![r] = Caught(rec, "DBError")]
  \/ /\ outcome = "chat_persist_raises"
     /\ QueriesLatestAi(rec)
     /\ agent_messages' = agent_messages \o SessionRows(rec)
     /\ UNCHANGED chat_messages
     /\ run' = [run EXCEPT ![r] = Caught(rec, "DBError")]

Outcomes == {"ok", "session_commit_raises", "chat_persist_raises"}

ServerFrame ==
  /\ history_response' = NoResponse
  /\ UNCHANGED thread_ids
  /\ UNCHANGED <<agent_graphs, chat_threads, agent_sessions>>
  /\ OtherFrame

LocalStep(r, rec) ==
  /\ run' = [run EXCEPT ![r] = rec]
  /\ ServerFrame
  /\ UNCHANGED <<chat_messages, agent_messages>>

\* astream yields the input state as its first 'values' item
AstreamFirst(r) ==
  /\ run[r].pc = "astream"
  /\ run[r].node = "start"
  /\ LocalStep(r, [HandleItem(run[r], "values", ValuesItem(run[r].state))
                     EXCEPT !.node = EntryPoint])

\* one step of the agent node; while streaming, its 'updates' and 'values'
\* items are handled
AgentStep(r, response) ==
  /\ run[r].pc \in {"astream", "ainvoke"}
  /\ run[r].node = "agent"
  /\ LET state == AfterAgent(run[r].state, response)
         moved == [run[r] EXCEPT !.state = state, !.node = NextNode("agent", state)]
     IN LocalStep(r,
          IF run[r].pc = "astream"
            THEN HandleItem(HandleItem(moved, "updates",
                                       {[any |-> TRUE, lastAI |-> {response}]}),
                            "values", ValuesItem(state))
            ELSE moved)

\* one step of the tools node
ToolsStep(r) ==
  /\ run[r].pc \in {"astream", "ainvoke"}
  /\ run[r].node = "tools"
  /\ LET state == AfterTools(run[r].state)
         moved == [run[r] EXCEPT !.state = state, !.node = NextNode("tools", state)]
     IN LocalStep(r,
          IF run[r].pc = "astream"
            THEN HandleItem(HandleItem(moved, "updates", {}), "values", ValuesItem(state))
            ELSE moved)

\* the model call, a tool or the graph runtime raises
NodeRaises(r, e) ==
  /\ run[r].pc \in {"astream", "ainvoke"}
  /\ run[r].node \in {"agent", "tools"}
  /\ LocalStep(r, Caught(run[r], e))

\* the agent stream is exhausted: recover by ainvoke, or persist and end
AstreamEnd(r, outcome) ==
  /\ run[r].pc = "astream"
  /\ run[r].node = "END"
  /\ LET rec == [run[r] EXCEPT !.exhausted = TRUE]
     IN IF NeedsRecovery(rec)
          THEN /\ outcome = "ok"
               /\ LocalStep(r, [rec EXCEPT !.pc = "ainvoke", !.state = rec.input,
                                           !.node = EntryPoint,
                                           !.invocations = @ + 1])
          ELSE /\ Finish(r, rec, outcome)
               /\ ServerFrame

\* text kept from the recovered final state
RecoveredContent(content) == IF Truthy(content) THEN PyStr(content) ELSE <<>>

\* ainvoke returns the final state
AinvokeReturn(r, outcome) ==
  /\ run[r].pc = "ainvoke"
  /\ run[r].node = "END"
  /\ LET ai == run[r].state.lastAI
         rec == [run[r] EXCEPT
                   !.last_assistant_message = IF ai = {} THEN @ ELSE ai,
                   !.accumulated_content =
                       IF ai = {} THEN @ ELSE RecoveredContent(The(ai).content)]
     IN IF rec.state.any
          THEN /\ outcome = "ok"
               /\ LocalStep(r, [Emit([rec EXCEPT !.all_messages_seen = TRUE], "values")
                                  EXCEPT !.pc = "yield_final"])
          ELSE /\ Finish(r, rec, outcome)
               /\ ServerFrame

\* resumed after the recovered 'values' event: persist and end
ResumeFinal(r, outcome) ==
  /\ run[r].pc = "yield_final"
  /\ Finish(r, run[r], outcome)
  /\ ServerFrame

\* the generator is gone: its locals are released, what was sent remains
Released(rec, pc) ==
  [IdleRun EXCEPT !.pc = pc, !.thread = rec.thread, !.agent_graph = rec.agent_graph,
                  !.last_message = rec.last_message,
                  !.streamed_text = rec.streamed_text,
                  !.exhausted = rec.exhausted, !.invocations = rec.invocations,
                  !.ai_saved = rec.ai_saved, !.exc = rec.exc, !.error = rec.error,
                  !.ev_end = rec.ev_end, !.ev_error = rec.ev_error,
                  !.ev_last = rec.ev_last]

\* resumed after 'end' or 'error': the generator returns
Close(r) ==
  /\ run[r].pc = "yield_last"
  /\ LocalStep(r, Released(run[r], "closed"))

\* the client drops the connection: the generator is cancelled where it waits
Disconnect(r) ==
  /\ run[r].pc \in Active
  /\ LocalStep(r, Released(run[r], "dropped"))

\* the steps of the runs in `slots` with the model answering from `replies`
Progress(slots, replies) ==
  \/ \E r \in slots : AstreamFirst(r)
  \/ \E r \in slots, response \in replies : AgentStep(r, response)
  \/ \E r \in slots : ToolsStep(r)
  \/ \E r \in slots, outcome \in Outcomes : AstreamEnd(r, outcome)
  \/ \E r \in slots, outcome \in Outcomes : AinvokeReturn(r, outcome)
  \/ \E r \in slots, outcome \in Outcomes : ResumeFinal(r, outcome)
  \/ \E r \in slots : Close(r)

\* a node raises, or the client goes away
Interrupt(slots, errors) ==
  \/ \E r \in slots, e \in errors : NodeRaises(r, e)
  \/ \E r \in slots : Disconnect(r)

SessionIds == <<"s1", "s2">>

\* POST /threads: the thread id is freshly drawn
create_thread(t, config) ==
  /\ agent_graphs[t] = 0
  /\ chat_threads[t] = Absent
  /\ agent_graphs' = EnsureGraph(agent_graphs, t)
  /\ IF IsSet(config.user_id)
       THEN /\ Len(agent_sessions) < Len(SessionIds)
            /\ agent_sessions' = Append(agent_sessions,
                 [sessionId |-> SessionIds[Len(agent_sessions) + 1],
                  userId |-> config.user_id, planId |-> config.plan_id])
            /\ chat_threads' = [chat_threads EXCEPT ![t] = config.user_id]
       ELSE UNCHANGED <<agent_sessions, chat_threads>>
  /\ history_response' = NoResponse
  /\ thread_ids' = thread_ids \cup {t}
  /\ UNCHANGED <<chat_messages, agent_messages, run>>
  /\ OtherFrame

\* a formatter that reports every stored message as an ai message
HistoryMessageAllAi(msg) ==
  [type |-> "ai", content |-> <<TextPart(msg.content)>>]

\* one message of the history response
HistoryMessage(msg) ==
  [type |-> IF msg.role = "human" THEN "human" ELSE "ai",
   content |-> <<TextPart(msg.content)>>]

\* body returned by POST /threads/{thread_id}/history
HistoryBody(t) ==
  LET messages == RowsAsc(chat_messages, LAMBDA m : m.threadId = t)
      formatted_messages == [k \in 1..Len(messages) |-> HistoryMessage(messages[k])]
  IN IF chat_threads[t] = Absent \/ formatted_messages = <<>>
       THEN <<>>
       ELSE << [messages |-> formatted_messages] >>

get_thread_history(t) ==
  /\ history_response' = [thread |-> t, body |-> HistoryBody(t)]
  /\ UNCHANGED thread_ids
  /\ UNCHANGED <<agent_graphs, chat_threads, chat_messages, agent_sessions,
                 agent_messages, run>>
  /\ OtherFrame

\* no knowledge-base call has been made
NoKbOutput ==
  [call |-> "none", question |-> <<>>, use_vector_search |-> FALSE,
   world |-> [loader |-> "unavailable", hits |-> <<>>, db |-> "ok"],
   raised |-> {}, parts |-> <<>>]

NoLibraryOutput == [route |-> "none"]

\* the processes that build the Flask application: app.py, the conversation
\* server and a tool call of the agent
Processes == {"app", "langgraph_server", "langgraph_agent"}

EmptyOntology ==
  [frameworks |-> <<>>, controls |-> <<>>, prompts |-> <<>>, threats |-> <<>>,
   mappings |-> <<>>]

\* an empty database and no application built yet
SeedIdle ==
  /\ seed_tables = EmptyOntology
  /\ seeders = [p \in Processes |-> "idle"]
  /\ seed_calls = 0

ServerIdle ==
  /\ agent_graphs = [t \in Threads |-> 0]
  /\ chat_threads = [t \in Threads |-> Absent]
  /\ chat_messages = <<>>
  /\ agent_sessions = <<>>
  /\ agent_messages = <<>>
  /\ run = [r \in Slots |-> IdleRun]
  /\ history_response = NoResponse
  /\ thread_ids = {}
  /\ plans = SeedPlans
  /\ agent_response = NoAgentResponse
  /\ stream_view = IdleView
  /\ kb_out = NoKbOutput
  /\ collection = {}
  /\ ingest_log = <<>>
  /\ library_out = NoLibraryOutput
  /\ SeedIdle

-----------------------------------------------------------------------------
(* services/agent_service.py: the fallback agent                            *)

Greeting == <<"Hello! I am CyPlanAI. Tell me your scope and goals.">>
NoPlanReply ==
  <<"No active plan is attached to this session. Create/attach a plan first.">>
GeneratedReply == <<"Generated the plan summary and saved it to your plan.">>
NoThreatsReply ==
  <<"No known threats detected from your input. Mention risks like phishing or data poisoning.">>
NotConfiguredReply == <<"LLM is not configured. Set LLM_PROVIDER in backend/.env.">>

\* AgentService._remember(session_id, role, content)
remember(rows, session_id, role, content) ==
  Append(rows, [sessionId |-> session_id, role |-> role, content |-> content])

\* AgentService.start_session(plan_id)
start_session(user_id, plan_id) ==
  /\ Len(agent_sessions) < Len(SessionIds)
  /\ LogRoom("none", 1)
  /\ LET sessionId == SessionIds[Len(agent_sessions) + 1]
     IN /\ agent_sessions' = Append(agent_sessions,
             [sessionId |-> sessionId, userId |-> user_id, planId |-> plan_id])
        /\ agent_messages' = remember(agent_messages, sessionId, "assistant", Greeting)
        /\ agent_response' = [intent |-> "session", message |-> Greeting, raised |-> {}]
  /\ history_response' = NoResponse
  /\ UNCHANGED thread_ids
  /\ UNCHANGED <<agent_graphs, chat_threads, chat_messages, run, plans>>
  /\ UNCHANGED <<scoreVars, riskVars, viewVars, knowledgeVars, libraryVars, seedVars>>

\* a planner that tests the risk rule before the framework rule
IntentRiskFirst(content) ==
  LET l == Lower(content)
  IN IF /\ Contains(l, << "g", "e", "n", "e", "r", "a", "t", "e" >>)
        /\ Contains(l, << "s", "u", "m", "m", "a", "r", "y" >>) THEN "generate_summary"
     ELSE IF Contains(l, << "r", "i", "s", "k" >>) \/ Contains(l, << "s", "c", "o", "r", "e" >>) THEN "risk_score"
     ELSE IF Contains(l, << "f", "r", "a", "m", "e", "w", "o", "r", "k" >>) THEN "framework_info"
     ELSE "chat"

\* "very simple planner: detect intents"
Intent(content) ==
  LET l == Lower(content)
  IN IF /\ Contains(l, << "g", "e", "n", "e", "r", "a", "t", "e" >>)
        /\ Contains(l, << "s", "u", "m", "m", "a", "r", "y" >>) THEN "generate_summary"
     ELSE IF Contains(l, << "f", "r", "a", "m", "e", "w", "o", "r", "k" >>) THEN "framework_info"
     ELSE IF Contains(l, << "r", "i", "s", "k" >>) \/ Contains(l, << "s", "c", "o", "r", "e" >>) THEN "risk_score"
     ELSE "chat"

\* AgentSession.query.get(session_id)
SessionById(session_id) ==
  { agent_sessions[k] : k \in { k \in 1..Len(agent_sessions) :
                                  agent_sessions[k].sessionId = session_id } }

\* Plan.query.get(session.planId) if session and session.planId else None
PlanOfSession(session_id) ==
  { p \in PlanIds : \E s \in SessionById(session_id) : IsSet(s.planId) /\ s.planId = p }

\* f"Framework info: {info.get('name','N/A')} - {info.get('description','No description')}"
FrameworkReply(session_id) ==
  LET framework_id == { plans[p].frameworkId : p \in PlanOfSession(session_id) }
      info == { FrameworkRow(f) : f \in framework_id \cap FrameworkIds }
  IN IF info = {}
       THEN <<"Framework info: ", "N/A", " - ", "No description">>
       ELSE <<"Framework info: ">> \o The(info).name \o <<" - ">> \o The(info).description

\* "Risk scoring results:" and one line per result
RiskReply(scores) ==
  IF scores # <<>>
    THEN <<"Risk scoring results:">> \o
         [k \in 1..Len(scores) |-> ToString(scores[k].score)]
    ELSE NoThreatsReply

\* what the collaborators of one call do: the summary chain returns a text or
\* raises ({}), the chat model is not configured, raises or replies
Worlds ==
  [summary : {{}, {<<"plan summary">>}}, llm : {"unset", "raises", "replies"}]

\* names bound at module level of services/plan_generator.py
PlanGeneratorGlobals ==
  {"requests", "Config", "ControlMapping", "Threat", "Control", "ChatPromptTemplate",
   "StrOutputParser", "ChatOpenAI", "ChatAnthropic", "ChatOllama",
   "_build_citations_section", "generate_plan_summary", "generate_fallback_summary"}

\* generate_fallback_summary(plan, prompts, responses)
generate_fallback_summary(plan) ==
  <<"=== Cybersecurity Plan Summary ===", "Framework: ">>
    \o (IF plan.frameworkId \in FrameworkIds THEN FrameworkRow(plan.frameworkId).name
        ELSE <<"Selected Framework">>)
    \o <<"=== Executive Summary ===">>

\* generate_plan_summary(plan, prompts, responses): its first statement reads
\* the global `client`; a failing chain falls back to the fixed summary
generate_plan_summary(plan, world) ==
  IF "client" \notin PlanGeneratorGlobals
    THEN [raises |-> {"NameError"}, summary |-> <<>>]
  ELSE IF world.summary = {}
    THEN [raises |-> {}, summary |-> generate_fallback_summary(plan)]
  ELSE [raises |-> {},
        summary |-> <<"=== Cybersecurity Plan Summary ===">> \o The(world.summary)]

\* the call raises: what was committed stays, nothing is returned
Raises(remembered, intent, e) ==
  /\ agent_messages' = remembered
  /\ agent_response' = [intent |-> intent, message |-> <<>>, raised |-> {e}]
  /\ UNCHANGED plans

Replies(remembered, session_id, intent, reply) ==
  /\ agent_messages' = remember(remembered, session_id, "assistant", reply)
  /\ agent_response' = [intent |-> intent, message |-> reply, raised |-> {}]

\* AgentService.user_message(session_id, content)
user_message(session_id, content, world) ==
  LET remembered == remember(agent_messages, session_id, "user", content)
      intent == Intent(content)
      plan == PlanOfSession(session_id)
  IN /\ LogRoom("none", 2)
     /\ CASE intent = "generate_summary" ->
               IF plan = {}
                 THEN Replies(remembered, session_id, intent, NoPlanReply) /\ UNCHANGED plans
               ELSE LET out == generate_plan_summary(plans[The(plan)], world)
                    IN IF out.raises # {}
                         THEN Raises(remembered, intent, The(out.raises))
                         ELSE /\ plans' = [plans EXCEPT
                                            ![The(plan)].summary = {out.summary}]
                              /\ Replies(remembered, session_id, intent, GeneratedReply)
          [] intent = "framework_info" ->
               Replies(remembered, session_id, intent, FrameworkReply(session_id))
                 /\ UNCHANGED plans
          [] intent = "risk_score" ->
               \E order \in Orderings(SeenNames(<<content>>)) :
                 Replies(remembered, session_id, intent,
                         RiskReply(ToolRiskScoreResults(order))) /\ UNCHANGED plans
          [] intent = "chat" ->
               IF world.llm = "raises"
                 THEN Raises(remembered, intent, "LLMError")
                 ELSE Replies(remembered, session_id, intent,
                              IF world.llm = "unset" THEN NotConfiguredReply ELSE TextA)
                        /\ UNCHANGED plans
     /\ history_response' = NoResponse
     /\ UNCHANGED thread_ids
     /\ UNCHANGED <<agent_graphs, chat_threads, chat_messages, agent_sessions, run>>
     /\ UNCHANGED <<scoreVars, riskVars, viewVars, knowledgeVars, libraryVars, seedVars>>

\* langgraph_agent.py generate_plan_summary_tool_func(plan_id): the tool of
\* the tool-calling agent; what it returns becomes the tool message
generate_plan_summary_tool_func(plan_id, world) ==
  /\ IF plan_id \notin PlanIds
       THEN /\ agent_response' = [intent |-> "tool", raised |-> {},
                                  message |-> <<"Plan with ID ", plan_id, " not found.">>]
            /\ UNCHANGED plans
       ELSE LET out == generate_plan_summary(plans[plan_id], world)
            IN IF out.raises # {}
                 THEN /\ agent_response' =
                           [intent |-> "tool", raised |-> {},
                            message |-> <<"Error generating summary: ", The(out.raises)>>]
                      /\ UNCHANGED plans
                 ELSE /\ plans' = [plans EXCEPT ![plan_id].summary = {out.summary}]
                      /\ agent_response' =
                           [intent |-> "tool", raised |-> {},
                            message |-> <<"Plan summary generated successfully.">>]
  /\ history_response' = NoResponse
  /\ UNCHANGED thread_ids
  /\ UNCHANGED <<agent_graphs, chat_threads, chat_messages, agent_sessions,
                 agent_messages, run>>
  /\ UNCHANGED <<scoreVars, riskVars, viewVars, knowledgeVars, libraryVars, seedVars>>

-----------------------------------------------------------------------------
(* services/knowledge_base.py and plan_generator._build_citations_section   *)

\* A text appended to a result list: what it is, the row it is about and its
\* number of characters.  The result lists are joined with "\n".
Part(kind, key, size) == [kind |-> kind, key |-> key, size |-> size]

\* len(str(x)) of a nullable column holding a small number
NumLen(x) == IF x = {} THEN 4 ELSE IF The(x) < 10 THEN 1 ELSE 2

RECURSIVE Flatten(_)
Flatten(lists) == IF lists = <<>> THEN <<>> ELSE Head(lists) \o Flatten(Tail(lists))

\* fw.name if fw else 'Unknown'
FrameworkNameOf(f) ==
  IF f \in FrameworkIds THEN FrameworkRow(f).name
  ELSE << "U", "n", "k", "n", "o", "w", "n" >>

\* ControlMapping.query.filter_by(threatId=t).all()
MappingsOf(t) == SelectSeq(Mappings, LAMBDA m : m.threatId = t)

\* KnowledgeBase.get_all_knowledge()
get_all_knowledge ==
  LET FrameworkParts(f) ==
        LET fw == FrameworkRow(f)
        IN << Part("framework", f, 15 + Len(fw.name) + Len(fw.type)),
              Part("framework_description", f, 14 + Len(fw.description)),
              Part("framework_version", f, 11 + Len(fw.version)) >>
      ControlParts(c) ==
        LET ctrl == ControlRow(c)
        IN << Part("control", c, 13 + Len(ctrl.reference) + Len(ctrl.title)),
              Part("control_framework", c, 12 + Len(FrameworkNameOf(ctrl.frameworkId))),
              Part("control_category", c, 11 + Len(ctrl.category)),
              Part("control_description", c, 14 + Len(ctrl.description)),
              Part("control_maturity", c, 45) >>
      MappingParts(t) ==
        LET mappings == MappingsOf(t)
            kept == SelectSeq(mappings, LAMBDA m : m.controlId \in controls)
        IN IF mappings = <<>> THEN <<>>
           ELSE << Part("recommended", t, 22) >> \o
                [k \in 1..Len(kept) |->
                   Part("mapping", kept[k].controlId,
                        10 + Len(ControlRow(kept[k].controlId).reference)
                           + Len(ControlRow(kept[k].controlId).title)
                           + Len(kept[k].evidence_hint))]
      ThreatParts(t) ==
        << Part("threat", t, 9 + Len(ThreatRow(t).name)),
           Part("threat_category", t, 11 + Len(ThreatRow(t).category)),
           Part("threat_description", t, 14 + Len(ThreatRow(t).description)),
           Part("threat_values", t, 27 + NumLen(threat_vals[t].likelihood)
                                       + NumLen(threat_vals[t].impact)) >>
          \o MappingParts(t) \o << Part("blank", t, 1) >>
      ordered == SelectSeq(ControlsByFramework, LAMBDA c : c \in controls)
  IN << Part("header", "frameworks", 33) >>
       \o Flatten([k \in 1..Len(FrameworkOrder) |-> FrameworkParts(FrameworkOrder[k])])
       \o << Part("header", "controls", 17) >>
       \o Flatten([k \in 1..Len(ordered) |-> ControlParts(ordered[k])])
       \o << Part("header", "threats", 23) >>
       \o Flatten([k \in 1..Len(ThreatOrder) |-> ThreatParts(ThreatOrder[k])])

\* "\n".join(parts)[:limit]: the parts that fit, the last one cut short
RECURSIVE Slice(_, _)
Slice(parts, limit) ==
  IF parts = <<>> \/ limit <= 0 THEN <<>>
  ELSE IF Head(parts).size > limit THEN << [Head(parts) EXCEPT !.size = limit] >>
  ELSE << Head(parts) >> \o Slice(Tail(parts), limit - Head(parts).size - 1)

\* KnowledgeBase.search_knowledge(query): one ILIKE '%query%' per column
search_knowledge(query) ==
  LET frameworks ==
        SelectSeq(FrameworkOrder, LAMBDA f :
          ILike(FrameworkRow(f).name, query) \/ ILike(FrameworkRow(f).description, query))
      found ==
        SelectSeq(SelectSeq(ControlOrder, LAMBDA c : c \in controls), LAMBDA c :
          \/ ILike(ControlRow(c).title, query)
          \/ ILike(ControlRow(c).description, query)
          \/ ILike(ControlRow(c).reference, query)
          \/ ILike(ControlRow(c).category, query))
      threats ==
        SelectSeq(ThreatOrder, LAMBDA t :
          \/ ILike(ThreatRow(t).name, query)
          \/ ILike(ThreatRow(t).description, query)
          \/ ILike(ThreatRow(t).category, query))
      ControlParts(c) ==
        << Part("control", c, 6 + Len(ControlRow(c).reference)
                                + Len(FrameworkNameOf(ControlRow(c).frameworkId))
                                + Len(ControlRow(c).title)) >>
          \o (IF ControlRow(c).description # <<>>
                THEN << Part("control_description", c, 3 + Len(ControlRow(c).description)) >>
                ELSE <<>>)
      results ==
        (IF frameworks = <<>> THEN <<>>
         ELSE << Part("header", "relevant_frameworks", 28) >> \o
              [k \in 1..Len(frameworks) |->
                 Part("framework", frameworks[k],
                      3 + Len(FrameworkRow(frameworks[k]).name)
                        + Len(FrameworkRow(frameworks[k]).description))])
        \o (IF found = <<>> THEN <<>>
            ELSE << Part("header", "relevant_controls", 27) >> \o
                 Flatten([k \in 1..Len(found) |-> ControlParts(found[k])]))
        \o (IF threats = <<>> THEN <<>>
            ELSE << Part("header", "relevant_threats", 26) >> \o
                 [k \in 1..Len(threats) |->
                    Part("threat", threats[k],
                         6 + Len(ThreatRow(threats[k]).name)
                           + Len(ThreatRow(threats[k]).category)
                           + Len(ThreatRow(threats[k]).description))])
  IN IF results # <<>> THEN results ELSE << Part("text", "no_matches", 44) >>

\* the fixed term lists of get_context_for_question
framework_names ==
  << << "n", "i", "s", "t", " ", "c", "s", "f" >>,
     << "n", "i", "s", "t", " ", "c", "s" >>,
     << "i", "s", "o", " ", "2", "7", "0", "0", "1" >>,
     << "i", "s", "o", "2", "7", "0", "0", "1" >>,
     << "n", "i", "s", "t", " ", "a", "i", " ", "r", "m", "f" >>,
     << "m", "i", "t", "r", "e", " ", "a", "t", "l", "a", "s" >>,
     << "a", "t", "l", "a", "s" >> >>
threat_terms ==
  << << "p", "h", "i", "s", "h", "i", "n", "g" >>,
     << "p", "o", "i", "s", "o", "n", "i", "n", "g" >>,
     << "a", "d", "v", "e", "r", "s", "a", "r", "i", "a", "l" >>,
     << "a", "t", "t", "a", "c", "k" >>,
     << "t", "h", "r", "e", "a", "t" >>,
     << "r", "i", "s", "k" >>,
     << "v", "u", "l", "n", "e", "r", "a", "b", "i", "l", "i", "t",
           "y" >> >>
control_terms ==
  << << "c", "o", "n", "t", "r", "o", "l" >>,
     << "c", "o", "m", "p", "l", "i", "a", "n", "c", "e" >>,
     << "a", "u", "d", "i", "t" >>,
     << "a", "c", "c", "e", "s", "s" >>,
     << "e", "n", "c", "r", "y", "p", "t", "i", "o", "n" >>,
     << "m", "o", "n", "i", "t", "o", "r", "i", "n", "g" >> >>

\* the terms of the three fixed lists found in the lower-cased question
Keywords(question) ==
  LET q_lower == Lower(question)
  IN SelectSeq(framework_names, LAMBDA w : Contains(q_lower, w))
       \o SelectSeq(threat_terms, LAMBDA w : Contains(q_lower, w))
       \o SelectSeq(control_terms, LAMBDA w : Contains(q_lower, w))

\* What the collaborators of one retrieval do.  loader: the DocumentLoader
\* cannot be constructed, its search raises, or it returns `hits`; db: the
\* ontology queries run or raise.
Hit(id, library, source, size) ==
  [id |-> id, library |-> library, source |-> source, size |-> size]
KbWorlds ==
  { w \in [loader : {"unavailable", "raises", "ok"},
           hits : {<<>>, << Hit("hit-1", << "n", "i", "s", "t" >>,
                                << "c", "s", "f", ".", "m", "d" >>, 40) >>},
           db : {"ok", "raises"}] :
      w.loader # "ok" => w.hits = <<>> }

\* KnowledgeBase.get_context_for_question(question, use_vector_search)
get_context_for_question(question, use_vector_search, world) ==
  LET vector_results ==
        IF use_vector_search /\ world.loader = "ok" THEN world.hits ELSE <<>>
      vector ==
        IF vector_results = <<>> THEN <<>>
        ELSE << Part("header", "library", 39) >> \o
             [k \in 1..Len(vector_results) |->
                Part("vector", vector_results[k].id,
                     11 + Len(vector_results[k].library) + Len(vector_results[k].source)
                        + vector_results[k].size)]
      keywords == Keywords(question)
      kb_context == search_knowledge(JoinSpace(keywords))
      ontology ==
        IF keywords # <<>>
          THEN IF kb_context # <<>>
                 THEN << Part("header", "knowledge", 42) >> \o kb_context
                 ELSE <<>>
          ELSE << Part("header", "knowledge_summary", 52) >> \o Slice(get_all_knowledge, 3000)
      context_parts == vector \o ontology
  IN kb_out' =
       [call |-> "context", question |-> question,
        use_vector_search |-> use_vector_search, world |-> world,
        raised |-> IF world.db = "raises" THEN {"DBError"} ELSE {},
        parts |-> IF world.db = "raises" THEN <<>>
                  ELSE IF context_parts # <<>> THEN context_parts
                  ELSE << Part("text", "no_context", 26) >>]

\* get_all_knowledge() called on its own
dump_knowledge ==
  kb_out' = [NoKbOutput EXCEPT !.call = "dump", !.parts = get_all_knowledge]

\* plan_generator._build_citations_section(plan): the threats named in the
\* plan's responses, one row per ControlMapping of each
CitationKeywords ==
  << [k |-> << "p", "h", "i", "s", "h", "i", "n", "g" >>, name |-> PhishingName],
     [k |-> << "p", "o", "i", "s", "o", "n" >>, name |-> PoisoningName],
     [k |-> << "p", "o", "i", "s", "o", "n", "i", "n", "g" >>, name |-> PoisoningName] >>

CitationRows(order) ==
  LET found == SelectSeq(order, LAMBDA name : ThreatByName(name) # {})
      RowsOf(name) ==
        LET t == The(ThreatByName(name))
            mappings == MappingsOf(t)
        IN [k \in 1..Len(mappings) |->
              [threat |-> t,
               control |-> IF mappings[k].controlId \in controls
                             THEN mappings[k].controlId ELSE None]]
  IN Flatten([k \in 1..Len(found) |-> RowsOf(found[k])])

build_citations_section(responses) ==
  LET selected_threats ==
        { CitationKeywords[m].name : m \in { m \in 1..Len(CitationKeywords) :
            \E r \in 1..Len(responses) :
              Contains(Lower(responses[r]), CitationKeywords[m].k) } }
  IN \E order \in Orderings(selected_threats) :
       kb_out' = [NoKbOutput EXCEPT !.call = "citations", !.parts = CitationRows(order)]

-----------------------------------------------------------------------------
(* Specification of score() on its own                                      *)

ScoreIdle ==
  /\ score_in = <<1, 1>>
  /\ score_out = {}

RiskIdle ==
  /\ threat_vals = [t \in ThreatIds |-> SeedVals(t)]
  /\ controls = ControlIds
  /\ risk_out = [path |-> "none", results |-> <<>>]

InitScore ==
  /\ score_in \in ((1 - ScoreSpan)..(5 + ScoreSpan)) \X ((1 - ScoreSpan)..(5 + ScoreSpan))
  /\ score_out = {}
  /\ RiskIdle
  /\ ServerIdle
  /\ add_existing = "ignored"

CallScore ==
  /\ score_out = {}
  /\ score_out' = {score(score_in[1], score_in[2])}
  /\ UNCHANGED <<score_in, riskVars, serverVars, viewVars, knowledgeVars, libraryVars, seedVars>>

-----------------------------------------------------------------------------
(* Specification of the three scoring paths over a Threat table whose       *)
(* stored likelihood and impact may lie outside 1..5                        *)

\* at most one Threat row has drifted from its seeded values
InitRisk ==
  /\ ScoreIdle
  /\ \/ threat_vals = [t \in ThreatIds |-> SeedVals(t)]
     \/ \E d \in ThreatIds : \E l \in StoredVals, i \in StoredVals :
          threat_vals = [t \in ThreatIds |->
                           IF t = d THEN [likelihood |-> l, impact |-> i]
                           ELSE SeedVals(t)]
  /\ controls = ControlIds
  /\ risk_out = [path |-> "none", results |-> <<>>]
  /\ ServerIdle
  /\ add_existing = "ignored"

RiskScoreEndpoint ==
  /\ risk_out.path = "none"
  /\ \E items \in (UNION { [1..n -> Items] : n \in 0..MaxItems }) : risk_score(items)
  /\ UNCHANGED <<scoreVars, serverVars, viewVars, knowledgeVars, libraryVars, seedVars>>

FallbackRiskScore ==
  /\ risk_out.path = "none"
  /\ \E content \in {HintPhishing, HintBoth, HintNone} : tool_risk_score(<<content>>)
  /\ UNCHANGED <<scoreVars, serverVars, viewVars, knowledgeVars, libraryVars, seedVars>>

RiskAssessmentTool ==
  /\ risk_out.path = "none"
  /\ \E keywords \in {<< "M", "L" >>, << "s", "o", "c", "i", "a", "l" >>, << "z", "z", "z" >>} :
       get_risk_assessment_tool(keywords)
  /\ UNCHANGED <<scoreVars, serverVars, viewVars, knowledgeVars, libraryVars, seedVars>>

NextRisk ==
  \/ RiskScoreEndpoint
  \/ FallbackRiskScore
  \/ RiskAssessmentTool

-----------------------------------------------------------------------------
(* Specifications of the conversation server                                *)

InitServer ==
  /\ ScoreIdle
  /\ RiskIdle
  /\ ServerIdle
  /\ add_existing = "ignored"

\* what a step of the streamed run leaves alone
ViewFrame == UNCHANGED <<scoreVars, riskVars, serverVars, knowledgeVars, libraryVars, seedVars>>

\* requests that carry no user, session or plan
AnonymousConfigs == [user_id : {None}, session_id : {None}, plan_id : {None}]

\* one run at a time on one thread, every request form and model reply
NextStream ==
  \/ \E body \in RequestBodies, config \in AnonymousConfigs :
       create_run("r1", "t1", body, config)
  \/ Progress({"r1"}, LLMReplies)
  \/ Interrupt({"r1"}, Exceptions)

\* runs on two threads, thread creation and thread history
ServerBodies ==
  { [input |-> {}, messages |-> {}],
    [input |-> {}, messages |-> {<< Msg({"human"}, {}, Str(BlankText)) >>}],
    [input |-> {}, messages |-> {<< Msg({}, {"user"}, Str(TextA)) >>}],
    [input |-> {<< Msg({"human"}, {}, Str(TextB)) >>}, messages |-> {}] }
ServerReplies ==
  { AIMsg(Str(<<>>), 0), AIMsg(Str(BlankText), 0), AIMsg(Str(TextA), 0),
    AIMsg(Parts(<<TextPart(TextB), OtherPart("tool_use")>>), 0), AIMsg(Str(<<>>), 1) }

NextServer ==
  \/ \E t \in Threads, config \in AnonymousConfigs : create_thread(t, config)
  \/ \E t \in Threads, body \in ServerBodies, config \in AnonymousConfigs :
       create_run("r1", t, body, config)
  \/ Progress({"r1"}, ServerReplies)
  \/ Interrupt({"r1"}, {"LLMError"})
  \/ \E t \in Threads : get_thread_history(t)

\* two requests in flight on one thread
ConcurrentBodies ==
  { [input |-> {}, messages |-> {<< Msg({}, {"user"}, Str(TextA)) >>}],
    [input |-> {}, messages |-> {<< Msg({}, {"user"}, Str(TextB)) >>}],
    [input |-> {}, messages |-> {<< Msg({}, {"user"}, Str(BlankText)) >>}] }
ConcurrentReplies ==
  { AIMsg(Str(<<>>), 0), AIMsg(Str(BlankText), 0), AIMsg(Str(TextA), 0),
    AIMsg(Str(TextB), 0), AIMsg(Str(<<>>), 1) }

NextConcurrent ==
  \/ \E r \in Slots, body \in ConcurrentBodies, config \in AnonymousConfigs :
       create_run(r, "t1", body, config)
  \/ Progress(Slots, ConcurrentReplies)
  \/ Interrupt(Slots, {"LLMError"})

\* the conversation server and the fallback agent on one database
SessionConfigs ==
  [user_id : {None, ""} \cup Users, session_id : {None, "s1"}, plan_id : {None}]
SessionReplies == { AIMsg(Str(<<>>), 0), AIMsg(Str(TextB), 0), AIMsg(Str(<<>>), 1) }
SessionWorlds ==
  [summary : {{}, {<<"plan summary">>}}, llm : {"raises", "replies"}]

NextSessions ==
  \/ \E config \in SessionConfigs : create_thread("t1", config)
  \/ \E config \in SessionConfigs :
       create_run("r1", "t1",
                  [input |-> {}, messages |-> {<< Msg({}, {"user"}, Str(TextA)) >>}], config)
  \/ Progress({"r1"}, SessionReplies)
  \/ Interrupt({"r1"}, {"LLMError"})
  \/ \E plan_id \in {None} \cup PlanIds : start_session("u1", plan_id)
  \/ \E content \in {AskSummary, AskChat}, world \in SessionWorlds :
       user_message("s1", content, world)

\* one streamed run seen through the ids of its snapshots
NextView ==
  \/ \E request \in ViewRequests : ViewStart(request) /\ ViewFrame
  \/ \E native \in BOOLEAN, text \in {TextA, TextB}, tool_calls \in {0, 1} :
       ViewAgent(native, text, tool_calls) /\ ViewFrame
  \/ ViewTools /\ ViewFrame
  \/ ViewItem /\ ViewFrame

\* the fallback agent and the summary tool of the tool-calling agent
IntentInputs ==
  { AskSummary, AskFramework, AskChat, AskAll, AskGenerateFramework, AskSummaryRisk,
    AskFrameworkScore, HintPhishing, HintBoth }

NextAgent ==
  \/ \E plan_id \in {None, ""} \cup PlanIds : start_session("u1", plan_id)
  \/ \E session_id \in {"s1", "s2"}, content \in IntentInputs, world \in Worlds :
       user_message(session_id, content, world)
  \/ \E plan_id \in PlanIds \cup {"p-unknown"}, world \in Worlds :
       generate_plan_summary_tool_func(plan_id, world)

\* the knowledge base, the citations and the risk-score endpoint over an
\* ontology in which any of the Control rows may be missing
InitKnowledge ==
  /\ ScoreIdle
  /\ threat_vals = [t \in ThreatIds |-> SeedVals(t)]
  /\ controls \in {ControlIds, ControlIds \ {"PR.AC-3"}, {"PR.AC-3", "MAP-2"}, {}}
  /\ risk_out = [path |-> "none", results |-> <<>>]
  /\ ServerIdle
  /\ add_existing = "ignored"

\* a knowledge-base call answers on its own: no scoring response is pending
KnowledgeFrame ==
  /\ risk_out' = [path |-> "none", results |-> <<>>]
  /\ UNCHANGED <<scoreVars, threat_vals, controls, serverVars, viewVars, libraryVars, seedVars>>

NextKnowledge ==
  \/ \E question \in {AskNistAccess, AskPhishing, AskAccess, AskEncryption, AskGreeting},
        use_vector_search \in BOOLEAN, world \in KbWorlds :
       get_context_for_question(question, use_vector_search, world) /\ KnowledgeFrame
  \/ dump_knowledge /\ KnowledgeFrame
  \/ \E responses \in {<<HintPhishing>>, <<HintNone, HintBoth>>, <<HintNone>>} :
       build_citations_section(responses) /\ KnowledgeFrame
  \/ \E item \in Items :
       /\ risk_score(<<item>>)
       /\ kb_out' = NoKbOutput
       /\ UNCHANGED <<scoreVars, serverVars, viewVars, libraryVars, seedVars>>

-----------------------------------------------------------------------------
(* services/document_loader.py: the vector store of the document library   *)

MaxChunks == 2      \* most chunks the text splitter makes of one file
MaxIngest == 3      \* process_and_store calls in one behaviour

\* str(i) of a natural number
RECURSIVE Digits(_)
Digits(i) ==
  LET digit == << "0", "1", "2", "3", "4", "5", "6", "7", "8", "9" >>
  IN IF i < 10 THEN << digit[i + 1] >>
     ELSE Digits(i \div 10) \o << digit[(i % 10) + 1] >>

LibraryNames == { << "a" >>, << "a", "_", "b" >> }

FileC == << "c", ".", "m", "d" >>
FileBC == << "b", "_", "c", ".", "m", "d" >>

\* a path is its directory and its last component
FilePaths ==
  { [dir |-> "docs", name |-> FileC],
    [dir |-> "docs/old", name |-> FileC],
    [dir |-> "docs", name |-> FileBC] }

\* Path(file_path).name
PathName(file_path) == file_path.name

\* an id that counts on from the entries already stored
ChunkIdCounting(library_name, file_name, i) ==
  library_name \o << "_" >> \o file_name \o << "_" >>
    \o Digits(i + Cardinality(collection))

\* f"{library_name}_{file_name}_{i}"
ChunkId(library_name, file_name, i) ==
  library_name \o << "_" >> \o file_name \o << "_" >> \o Digits(i)

\* the entry made of chunk i of n
ChunkEntry(library_name, file_name, i, n) ==
  [id |-> ChunkId(library_name, file_name, i),
   metadata |-> [source |-> file_name, library |-> library_name,
                 chunk_index |-> i, total_chunks |-> n]]

\* what the file system, the splitter, the embedding service and the store
\* do in one call: load_document returns or raises, the text splits into
\* `chunks` documents, embed_documents returns or raises (one failing case,
\* on a single chunk, stands for all), and add() of no entries at all
\* returns or raises
IngestWorlds ==
  { w \in [load : {"ok", "raises"}, chunks : 0..MaxChunks,
            embed : {"ok", "raises"}, empty_add : {"ok", "raises"}] :
      /\ w.load = "raises" => (w.chunks = 0 /\ w.embed = "ok")
      /\ w.embed = "raises" => w.chunks = 1
      /\ (w.chunks > 0 \/ w.embed = "raises" \/ w.load = "raises") => w.empty_add = "ok" }

\* one call: its arguments, len(documents) once the text is split ({} when
\* the load failed), the exception it raised and the dict it returned
IngestCall(file_path, library_name, documents, raised, result) ==
  [file_path |-> file_path, library |-> library_name, documents |-> documents,
   raised |-> raised, result |-> result]

\* collection.add(ids=...) is the store's own code: depending on the store
\* that is installed, an entry whose id is already stored is left as it is
\* or is replaced by the new one
AddOutcomes == {"ignored", "replaced"}

StoreAdd(store, entries) ==
  LET ids == { n.id : n \in entries }
  IN IF add_existing = "ignored"
       THEN store \cup { n \in entries : n.id \notin { e.id : e \in store } }
       ELSE { e \in store : e.id \notin ids } \cup entries

CollectionAdd(entries) == StoreAdd(collection, entries)

\* process_and_store on the store `store`: the store it leaves and the call
\* as it is recorded
Ingested(store, file_path, library_name, world) ==
  LET file_name == PathName(file_path)
      n == world.chunks
      entries == { ChunkEntry(library_name, file_name, i, n) : i \in 0..(n - 1) }
      failure ==
        IF world.load = "raises" THEN {"load_document"}
        ELSE IF world.embed = "raises" THEN {"embed_documents"}
        ELSE IF n = 0 /\ world.empty_add = "raises" THEN {"add"}
        ELSE {}
  IN IF failure # {}
       THEN [store |-> store,
             call |-> IngestCall(file_path, library_name,
                                 IF world.load = "raises" THEN {} ELSE {n}, failure, {})]
       ELSE [store |-> StoreAdd(store, entries),
             call |-> IngestCall(file_path, library_name, {n}, {},
                                 {[status |-> "success", library |-> library_name,
                                   file |-> file_name, chunks |-> n]})]

process_and_store(file_path, library_name, world) ==
  LET done == Ingested(collection, file_path, library_name, world)
  IN /\ Len(ingest_log) < MaxIngest
     /\ collection' = done.store
     /\ ingest_log' = Append(ingest_log, done.call)
     /\ library_out' = NoLibraryOutput
     /\ UNCHANGED <<scoreVars, riskVars, serverVars, viewVars, knowledgeVars, add_existing, seedVars>>

-----------------------------------------------------------------------------
(* routes/documents.py and train_library_direct.py: ingestion of a batch    *)

MaxBatch == 2       \* files that directory batches ingest in one behaviour

\* the files a directory holds, in the order the globs yield them
RECURSIVE Listings(_)
Listings(n) ==
  IF n = 0 THEN { <<>> }
  ELSE LET shorter == Listings(n - 1)
       IN shorter \cup
          { Append(files, f) : files \in { l \in shorter : Len(l) = n - 1 },
                               f \in FilePaths }

DirectoryListings ==
  { files \in Listings(MaxBatch) :
      \A j, k \in 1..Len(files) : files[j] = files[k] => j = k }

\* a loop that ends at the first file that fails
RECURSIVE BatchRunAborting(_, _, _, _)
BatchRunAborting(store, files, library_name, worlds) ==
  IF files = <<>> THEN [store |-> store, calls |-> <<>>]
  ELSE LET done == Ingested(store, Head(files), library_name, Head(worlds))
           rest == BatchRunAborting(done.store, Tail(files), library_name, Tail(worlds))
       IN IF done.call.raised # {} THEN [store |-> done.store, calls |-> << done.call >>]
          ELSE [store |-> rest.store, calls |-> << done.call >> \o rest.calls]

\* the loop over the files: each call works on the store the one before left
RECURSIVE BatchRun(_, _, _, _)
BatchRun(store, files, library_name, worlds) ==
  IF files = <<>> THEN [store |-> store, calls |-> <<>>]
  ELSE LET done == Ingested(store, Head(files), library_name, Head(worlds))
           rest == BatchRun(done.store, Tail(files), library_name, Tail(worlds))
       IN [store |-> rest.store, calls |-> << done.call >> \o rest.calls]

\* results.append(result)
BatchResults(calls) ==
  LET ok == SelectSeq(calls, LAMBDA c : c.raised = {})
  IN [k \in 1..Len(ok) |-> The(ok[k].result)]

\* errors.append({'file': str(file_path), 'error': str(e)})
BatchErrors(calls) ==
  LET bad == SelectSeq(calls, LAMBDA c : c.raised # {})
  IN [k \in 1..Len(bad) |-> [file |-> bad[k].file_path, error |-> The(bad[k].raised)]]

RECURSIVE SumChunks(_)
SumChunks(results) ==
  IF results = <<>> THEN 0 ELSE Head(results).chunks + SumChunks(Tail(results))

LibraryFrame ==
  UNCHANGED <<scoreVars, riskVars, serverVars, viewVars, knowledgeVars, add_existing, seedVars>>

\* POST /upload-directory.  directory_path is {} when the key is absent;
\* is_dir, files and worlds are what the file system holds and does.
upload_directory(directory_path, library_name, is_dir, files, loader, worlds) ==
  LET run_ == BatchRun(collection, files, library_name, worlds)
  IN /\ Len(ingest_log) + Len(files) <= MaxBatch
     /\ IF directory_path = {}
          THEN /\ library_out' = [route |-> "upload_directory", status |-> 400,
                                  error |-> "directory_path is required"]
               /\ UNCHANGED <<collection, ingest_log>>
        ELSE IF ~is_dir
          THEN /\ library_out' = [route |-> "upload_directory", status |-> 400,
                                  error |-> "Invalid directory path"]
               /\ UNCHANGED <<collection, ingest_log>>
        ELSE IF loader = "raises"
          THEN /\ library_out' = [route |-> "upload_directory", status |-> 500,
                                  error |-> "Directory upload failed"]
               /\ UNCHANGED <<collection, ingest_log>>
        ELSE /\ collection' = run_.store
             /\ ingest_log' = ingest_log \o run_.calls
             /\ library_out' =
                  [route |-> "upload_directory", status |-> 200, files |-> files,
                   successful |-> Len(BatchResults(run_.calls)),
                   failed |-> Len(BatchErrors(run_.calls)),
                   results |-> BatchResults(run_.calls),
                   errors |-> BatchErrors(run_.calls)]
     /\ LibraryFrame

LIBRARY_NAME ==
  << "c", "y", "b", "e", "r", "s", "e", "c", "u", "r", "i", "t", "y", "_",
     "f", "r", "a", "m", "e", "w", "o", "r", "k", "s" >>

\* train_library_direct.py, run as a script: exit is the status passed to
\* sys.exit, {} when the script runs to its end; its globs take the files
\* at the top of the folder only
train_documents(is_dir, files, confirm, loader, worlds) ==
  LET run_ == BatchRun(collection, files, LIBRARY_NAME, worlds)
      results == BatchResults(run_.calls)
  IN /\ Len(ingest_log) + Len(files) <= MaxBatch
     /\ IF ~is_dir \/ files = <<>>
          THEN /\ library_out' = [route |-> "train_documents", exit |-> {1}]
               /\ UNCHANGED <<collection, ingest_log>>
        ELSE IF confirm = "n"
          THEN /\ library_out' = [route |-> "train_documents", exit |-> {0}]
               /\ UNCHANGED <<collection, ingest_log>>
        ELSE IF loader = "raises"
          THEN /\ library_out' = [route |-> "train_documents", exit |-> {1}]
               /\ UNCHANGED <<collection, ingest_log>>
        ELSE /\ collection' = run_.store
             /\ ingest_log' = ingest_log \o run_.calls
             /\ library_out' =
                  [route |-> "train_documents", exit |-> {}, files |-> files,
                   successful |-> Len(results),
                   failed |-> Len(BatchErrors(run_.calls)),
                   total_chunks |-> SumChunks(results),
                   errors |-> BatchErrors(run_.calls)]
     /\ LibraryFrame

-----------------------------------------------------------------------------
(* routes/documents.py: listing, deleting and searching libraries           *)

\* the characters of the names in use, in code-point order
CharOrder ==
  << ".", "0", "1", "2", "3", "4", "5", "6", "7", "8", "9", "_",
     "a", "b", "c", "d", "e", "f", "g", "h", "i", "j", "k", "l", "m",
     "n", "o", "p", "q", "r", "s", "t", "u", "v", "w", "x", "y", "z" >>

CharRank(c) == CHOOSE k \in 1..Len(CharOrder) : CharOrder[k] = c

\* a < b on str
RECURSIVE StrLess(_, _)
StrLess(a, b) ==
  IF b = <<>> THEN FALSE
  ELSE IF a = <<>> THEN TRUE
  ELSE IF Head(a) = Head(b) THEN StrLess(Tail(a), Tail(b))
  ELSE CharRank(Head(a)) < CharRank(Head(b))

\* sorted(list(libraries)) over the 'library' of every stored metadata
LibrariesOf(store) ==
  LET libraries == { e.metadata.library : e \in store }
  IN [k \in 1..Cardinality(libraries) |->
        CHOOSE l \in libraries :
          Cardinality({ m \in libraries : StrLess(m, l) }) = k - 1]

get_all_libraries == LibrariesOf(collection)

\* GET /libraries
list_libraries(loader) ==
  /\ library_out' =
       IF loader = "raises"
         THEN [route |-> "list_libraries", status |-> 500,
               error |-> "Error listing libraries"]
         ELSE [route |-> "list_libraries", status |-> 200,
               libraries |-> get_all_libraries, count |-> Len(get_all_libraries)]
  /\ UNCHANGED <<collection, ingest_log>>
  /\ LibraryFrame

\* a delete that takes the entries whose id begins with the library's name
delete_library_by_id(library_name, loader, store) ==
  LET prefix == library_name \o << "_" >>
      found == { e \in collection :
                   /\ Len(e.id) >= Len(prefix)
                   /\ SubSeq(e.id, 1, Len(prefix)) = prefix }
  IN /\ library_out' = [route |-> "delete_library", library |-> library_name,
                        status |-> 200]
     /\ collection' = collection \ found
     /\ UNCHANGED ingest_log
     /\ LibraryFrame

\* DocumentLoader.delete_library and DELETE /libraries/<library_name>: the
\* store answers get and delete, or one of them raises; a delete that
\* raises may have removed some of the entries
delete_library(library_name, loader, store) ==
  LET found == { e \in collection : e.metadata.library = library_name }
  IN /\ IF loader = "raises"
          THEN /\ library_out' = [route |-> "delete_library", library |-> library_name,
                                  status |-> 500, error |-> "Error deleting library"]
               /\ collection' = collection
        ELSE IF store = "get_raises"
          THEN /\ library_out' = [route |-> "delete_library", library |-> library_name,
                                  status |-> 500, error |-> "Failed to delete library"]
               /\ collection' = collection
        ELSE IF store = "delete_raises" /\ found # {}
          THEN /\ library_out' = [route |-> "delete_library", library |-> library_name,
                                  status |-> 500, error |-> "Failed to delete library"]
               /\ \E removed \in SUBSET found : collection' = collection \ removed
        ELSE /\ library_out' = [route |-> "delete_library", library |-> library_name,
                                status |-> 200]
             /\ collection' = collection \ found
     /\ UNCHANGED ingest_log
     /\ LibraryFrame

\* the lists of `k` different entries of `found`, in any order
RECURSIVE Rankings(_, _)
Rankings(found, k) ==
  IF k = 0 \/ found = {} THEN { <<>> }
  ELSE UNION { { << e >> \o rest : rest \in Rankings(found \ {e}, k - 1) } : e \in found }

\* a search that hands no filter to the store
search_documents_unfiltered(query, n_results, library_filter, loader, embed) ==
  /\ \E ranked \in Rankings(collection, n_results) :
       library_out' = [route |-> "search", status |-> 200,
                       library |-> library_filter, n_results |-> n_results,
                       results |-> ranked, count |-> Len(ranked)]
  /\ UNCHANGED <<collection, ingest_log>>
  /\ LibraryFrame

\* DocumentLoader.search and POST /search.  library_filter is {} when the
\* key is absent; the store ranks the entries that pass the filter by
\* their distance to the query and answers with the n_results nearest
search_documents(query, n_results, library_filter, loader, embed) ==
  LET where == IF library_filter # {} /\ The(library_filter) # <<>>
                 THEN library_filter ELSE {}
      found == IF where = {} THEN collection
               ELSE { e \in collection : e.metadata.library = The(where) }
  IN /\ IF query = <<>>
          THEN library_out' = [route |-> "search", status |-> 400,
                               error |-> "query is required"]
        ELSE IF loader = "raises" \/ embed = "raises"
          THEN library_out' = [route |-> "search", status |-> 500,
                               error |-> "Search failed",
                               raised |-> IF loader = "raises" THEN "DocumentLoader"
                                          ELSE "embed_query"]
        ELSE \E ranked \in Rankings(found, n_results) :
               library_out' = [route |-> "search", status |-> 200,
                               library |-> library_filter, n_results |-> n_results,
                               results |-> ranked, count |-> Len(ranked)]
     /\ UNCHANGED <<collection, ingest_log>>
     /\ LibraryFrame

InitLibrary ==
  /\ ScoreIdle
  /\ RiskIdle
  /\ ServerIdle
  /\ add_existing \in AddOutcomes

NextLibrary ==
  \E file_path \in FilePaths, library_name \in LibraryNames, world \in IngestWorlds :
    process_and_store(file_path, library_name, world)

\* what happens to one file of a batch: it cannot be read, or it is stored
\* in one chunk or in as many as there can be
BatchWorlds ==
  { w \in IngestWorlds :
      /\ w.empty_add = "ok" /\ w.embed = "ok"
      /\ (w.load = "raises" \/ w.chunks \in {1, MaxChunks}) }

\* requests to the document routes and runs of the training script
NextDocuments ==
  \/ \E library_name \in LibraryNames :
       \/ upload_directory({}, library_name, FALSE, <<>>, "ok", <<>>)
       \/ upload_directory({"nowhere"}, library_name, FALSE, <<>>, "ok", <<>>)
       \/ upload_directory({"docs"}, library_name, TRUE, <<>>, "raises", <<>>)
       \/ \E files \in DirectoryListings :
            \E worlds \in [1..Len(files) -> BatchWorlds] :
              upload_directory({"docs"}, library_name, TRUE, files, "ok", worlds)
  \/ \E files \in { l \in DirectoryListings : \A k \in 1..Len(l) : l[k].dir = "docs" } :
       \/ train_documents(FALSE, <<>>, "y", "ok", <<>>)
       \/ train_documents(TRUE, files, "n", "ok", <<>>)
       \/ train_documents(TRUE, files, "y", "raises", <<>>)
       \/ \E worlds \in [1..Len(files) -> BatchWorlds] :
            train_documents(TRUE, files, "y", "ok", worlds)
  \/ \E loader \in {"ok", "raises"} : list_libraries(loader)
  \/ delete_library(LIBRARY_NAME, "raises", "ok")
  \/ delete_library(LIBRARY_NAME, "ok", "get_raises")
  \/ \E library_name \in LibraryNames \cup {LIBRARY_NAME}, store \in {"ok", "delete_raises"} :
       delete_library(library_name, "ok", store)
  \/ search_documents(<<>>, 1, {}, "ok", "ok")
  \/ search_documents(<< "q" >>, 1, {}, "raises", "ok")
  \/ search_documents(<< "q" >>, 1, {}, "ok", "raises")
  \/ \E n_results \in {1, MaxBatch}, library_filter \in {{}, {<<>>}} \cup { {l} : l \in LibraryNames } :
       search_documents(<< "q" >>, n_results, library_filter, "ok", "ok")

-----------------------------------------------------------------------------
(* services/seed_data.py: seed_frameworks_and_prompts, run by create_app    *)

MaxSeedCalls == 4   \* create_app() calls in one behaviour

\* the Framework rows (frameworkId)
SeedFrameworks ==
  << "nist-csf-001", "iso-27001-001", "nist-ai-rmf-001", "mitre-atlas-001" >>

ControlOf(frameworkId, reference) ==
  [frameworkId |-> frameworkId, reference |-> reference]

\* the Control rows
SeedControls ==
  << ControlOf("nist-csf-001", "PR.AC-3"), ControlOf("nist-csf-001", "PR.IP-1"),
     ControlOf("nist-csf-001", "DE.AE-1"), ControlOf("iso-27001-001", "A.8.1.1"),
     ControlOf("iso-27001-001", "A.9.2.1"), ControlOf("iso-27001-001", "A.12.6.1"),
     ControlOf("nist-ai-rmf-001", "GOV-1"), ControlOf("nist-ai-rmf-001", "MAP-2") >>

\* the Prompt rows of one framework, order 1..n
PromptsOf(frameworkId, n) ==
  [k \in 1..n |-> [frameworkId |-> frameworkId, order |-> k]]

SeedPrompts ==
  PromptsOf("nist-csf-001", 5) \o PromptsOf("iso-27001-001", 5)
    \o PromptsOf("nist-ai-rmf-001", 4) \o PromptsOf("mitre-atlas-001", 4)

\* the Threat rows (name)
SeedThreats ==
  << "Phishing leading to credential theft", "Data poisoning (ML)",
     "Model evasion attacks", "Model extraction", "Ransomware",
     "Unauthorized access", "Data breach" >>

\* the (threat name, control reference) pairs the mappings are made for
SeedMappingPairs ==
  << << "Phishing leading to credential theft", "PR.AC-3" >>,
     << "Phishing leading to credential theft", "A.9.2.1" >>,
     << "Data poisoning (ML)", "A.8.1.1" >>,
     << "Data poisoning (ML)", "MAP-2" >>,
     << "Model evasion attacks", "MAP-2" >>,
     << "Model evasion attacks", "DE.AE-1" >>,
     << "Ransomware", "PR.IP-1" >>,
     << "Ransomware", "A.12.6.1" >>,
     << "Unauthorized access", "PR.AC-3" >>,
     << "Unauthorized access", "A.9.2.1" >>,
     << "Data breach", "PR.AC-3" >>,
     << "Data breach", "DE.AE-1" >> >>

RowsOf(table) == { table[k] : k \in 1..Len(table) }

\* "if control and threat: db.session.add(ControlMapping(...))" over the rows
\* that Control.query / Threat.query find
MappingsFor(tables) ==
  SelectSeq(SeedMappingPairs,
            LAMBDA pair : /\ pair[1] \in RowsOf(tables.threats)
                          /\ pair[2] \in { c.reference : c \in RowsOf(tables.controls) })

SeedAtRest == {"idle", "returned", "raised"}

SeedFrame ==
  UNCHANGED <<scoreVars, riskVars, serverVars, viewVars, knowledgeVars, libraryVars>>

\* create_app() in process p: db.create_all(), then the seeding is entered;
\* "if Framework.query.count() > 0: return", else the four Framework rows
\* are added to the session
create_app(p) ==
  /\ seeders[p] \in SeedAtRest
  /\ seed_calls < MaxSeedCalls
  /\ seed_calls' = seed_calls + 1
  /\ seeders' = [seeders EXCEPT ![p] =
                   IF Len(seed_tables.frameworks) > 0 THEN "returned" ELSE "frameworks"]
  /\ UNCHANGED seed_tables
  /\ SeedFrame

\* a commit that fails, or the process ends before it: what the session
\* holds is lost and create_app does not return
SeedInterrupted(p) ==
  /\ seeders[p] \in {"frameworks", "rows", "mappings"}
  /\ seeders' = [seeders EXCEPT ![p] = "raised"]
  /\ UNCHANGED <<seed_tables, seed_calls>>
  /\ SeedFrame

\* first db.session.commit(): frameworkId is the primary key and name is
\* unique, so the commit raises when another process has stored the rows
CommitFrameworks(p) ==
  /\ seeders[p] = "frameworks"
  /\ IF RowsOf(seed_tables.frameworks) \cap RowsOf(SeedFrameworks) # {}
       THEN /\ seeders' = [seeders EXCEPT ![p] = "raised"]
            /\ UNCHANGED seed_tables
       ELSE /\ seeders' = [seeders EXCEPT ![p] = "rows"]
            /\ seed_tables' = [seed_tables EXCEPT !.frameworks = @ \o SeedFrameworks]
  /\ UNCHANGED seed_calls
  /\ SeedFrame

\* second db.session.commit(): controls, prompts and threats
CommitRows(p) ==
  /\ seeders[p] = "rows"
  /\ seeders' = [seeders EXCEPT ![p] = "mappings"]
  /\ seed_tables' = [seed_tables EXCEPT !.controls = @ \o SeedControls,
                                  !.prompts = @ \o SeedPrompts,
                                  !.threats = @ \o SeedThreats]
  /\ UNCHANGED seed_calls
  /\ SeedFrame

\* third db.session.commit(): the mappings
CommitMappings(p) ==
  /\ seeders[p] = "mappings"
  /\ seeders' = [seeders EXCEPT ![p] = "returned"]
  /\ seed_tables' = [seed_tables EXCEPT !.mappings = @ \o MappingsFor(seed_tables)]
  /\ UNCHANGED seed_calls
  /\ SeedFrame

\* the full seed set
FullOntology ==
  [frameworks |-> SeedFrameworks, controls |-> SeedControls, prompts |-> SeedPrompts,
   threats |-> SeedThreats, mappings |-> SeedMappingPairs]

NextSeed ==
  \/ \E p \in Processes : create_app(p)
  \/ \E p \in Processes : CommitFrameworks(p)
  \/ \E p \in Processes : CommitRows(p)
  \/ \E p \in Processes : CommitMappings(p)
  \/ \E p \in Processes : SeedInterrupted(p)

-----------------------------------------------------------------------------
(* Specifications                                                           *)

vars == <<scoreVars, riskVars, serverVars, viewVars, knowledgeVars, libraryVars, seedVars>>

SpecScore == InitScore /\ [][CallScore]_vars

SpecRisk == InitRisk /\ [][NextRisk]_vars

SpecStream == InitServer /\ [][NextStream]_vars

SpecServer == InitServer /\ [][NextServer]_vars

SpecConcurrent == InitServer /\ [][NextConcurrent]_vars
SpecSessions == InitServer /\ [][NextSessions]_vars

SpecView == InitServer /\ [][NextView]_vars

SpecAgent == InitServer /\ [][NextAgent]_vars

SpecKnowledge == InitKnowledge /\ [][NextKnowledge]_vars

SpecLibrary == InitLibrary /\ [][NextLibrary]_vars

SpecDocuments == InitLibrary /\ [][NextDocuments]_vars

SpecSeed == InitServer /\ [][NextSeed]_vars

\* the server keeps running a generator that can take a step, and every call
\* to the model or to a tool returns
FairStream == SpecStream /\ WF_vars(Progress({"r1"}, LLMReplies))

-----------------------------------------------------------------------------
(* Claims                                                                   *)

clamp(x, lo, hi) == IF x < lo THEN lo ELSE IF x > hi THEN hi ELSE x

\* C1: for all integer likelihood and impact, also below 1 and above 5,
\* score(likelihood, impact) = clamp(likelihood,1,5) * clamp(impact,1,5),
\* so the result lies in 1..25; score(-3,9) = score(1,5) = 5.
C1_ScoreClamps ==
  score_out # {} =>
    /\ The(score_out) = clamp(score_in[1], 1, 5) * clamp(score_in[2], 1, 5)
    /\ The(score_out) \in 1..25
    /\ (score_in \in {<<-3, 9>>, <<1, 5>>} => The(score_out) = 5)

C1_Witness ==
  /\ score_in = <<-3, 9>>
  /\ score_out = {5}

\* C2: every risk score produced by any scoring path (the risk-score
\* endpoint, the fallback agent's risk_score intent, the tool-calling
\* agent's risk-assessment tool) lies in 1..25, even when a stored Threat
\* has likelihood or impact outside 1..5.
C2_EveryScoreInRange ==
  \A k \in 1..Len(risk_out.results) : risk_out.results[k].score \in 1..25

-----------------------------------------------------------------------------
(* Claims about the event stream of a run                                   *)

Raised(r) == run[r].exc # {}

\* C3: in every run's event stream the event 'end' is emitted exactly once,
\* also in runs in which the agent stream, the recovery re-invocation or the
\* persistence step raises an exception.
C3_EndExactlyOnce ==
  \A r \in Slots : run[r].pc = "closed" => run[r].ev_end = 1

\* C4: whenever an exception is raised inside the streaming phase, the stream
\* emits exactly one 'error' event carrying the error string, it is the last
\* event of the stream, and no stream is closed without an 'end' or an
\* 'error' event having been emitted.
C4_ErrorEventOnRaise ==
  \A r \in Slots :
    /\ Raised(r) => /\ run[r].ev_error = 1
                    /\ run[r].error = run[r].exc
                    /\ run[r].ev_last = "error"
    /\ ~Raised(r) => run[r].ev_error = 0
    /\ run[r].pc = "closed" => /\ run[r].ev_end + run[r].ev_error >= 1
                               /\ run[r].ev_last \in {"end", "error"}

C4_Witness ==
  \E r \in Slots :
    /\ run[r].pc = "closed"
    /\ run[r].exc = {"LLMError"}
    /\ run[r].error = {"LLMError"}
    /\ run[r].ev_error = 1
    /\ run[r].ev_end = 0

C6_Step(r) ==
  LET a == run[r]
      b == run'[r]
      produced == The(b.state.last)
  IN /\ (a.pc \notin {"astream", "ainvoke"} /\ b.pc \in {"astream", "ainvoke"})
          => b.node \in {"start", "agent"}
     /\ (a.pc = "astream" /\ b.pc = "ainvoke") => b.node = "agent"
     /\ (a.pc \in {"astream", "ainvoke"} /\ b.pc = a.pc /\ b.node # a.node) =>
          /\ a.node = "start" => b.node = "agent"
          /\ a.node = "agent" =>
               /\ produced.type = "ai"
               /\ b.node = "tools" <=> produced.tool_calls >= 1
               /\ b.node = "END" <=> produced.tool_calls = 0
          /\ a.node = "tools" => b.node = "agent"
          /\ b.node = "END" => a.node = "agent"
     /\ (a.pc \in {"astream", "ainvoke"} /\ b.pc = a.pc /\ a.node \in {"agent", "tools"})
          => b.node # a.node

C6_GraphTransitions == [][\A r \in Slots : C6_Step(r)]_vars

C6_Witness ==
  \E r \in Slots :
    /\ run[r].pc = "astream"
    /\ run[r].node = "agent"
    /\ run[r].state.last = {ToolMessage}
    /\ The(run[r].state.lastAI).tool_calls >= 1

\* C7: the human ChatMessage (if any) is persisted before the first stream
\* event, the ai ChatMessage only after the agent stream has been consumed to
\* completion; when the client drops the connection before that, the thread
\* holds the human message and no ai message of that run.
HumanText(r) == The(run[r].last_message).content.text

HasHuman(r) ==
  /\ run[r].last_message # {}
  /\ The(run[r].last_message).type = "human"
  /\ strip(HumanText(r)) # <<>>

HumanStored(r) ==
  \E k \in 1..Len(chat_messages) :
    /\ chat_messages[k].threadId = run[r].thread
    /\ chat_messages[k].role = "human"
    /\ chat_messages[k].content = HumanText(r)

C7_PersistenceOrder ==
  \A r \in Slots :
    /\ (run[r].pc \notin {"idle", "rejected"} /\ HasHuman(r)) => HumanStored(r)
    /\ run[r].ai_saved => run[r].exhausted
    /\ (run[r].pc = "dropped" /\ ~run[r].exhausted) => ~run[r].ai_saved

C7_Witness ==
  \E r \in Slots :
    /\ run[r].pc = "dropped"
    /\ ~run[r].exhausted
    /\ run[r].ev_last = "values"
    /\ HasHuman(r)
    /\ HumanStored(r)
    /\ \A k \in 1..Len(chat_messages) : chat_messages[k].role # "ai"

\* C8: a run inserts a human ChatMessage only if its human text is non-blank
\* and differs from the thread's most recently stored human message, and an
\* ai ChatMessage only if the assistant text is non-blank and differs from the
\* most recently stored ai message; a retried run never adds a second copy
\* directly after the first of the same role.
PreviousOfRole(rows, row) ==
  LET idx == { k \in 1..Len(rows) :
                 rows[k].threadId = row.threadId /\ rows[k].role = row.role }
  IN IF idx = {} THEN {} ELSE { rows[CHOOSE k \in idx : \A j \in idx : j <= k] }

C8_Insert ==
  Len(chat_messages') > Len(chat_messages) =>
    LET row == chat_messages'[Len(chat_messages')]
    IN /\ Len(chat_messages') = Len(chat_messages) + 1
       /\ row.role \in {"human", "ai"}
       /\ strip(row.content) # <<>>
       /\ \A p \in PreviousOfRole(chat_messages, row) : p.content # row.content

C8_DuplicateSuppression == [][C8_Insert]_vars

C8_Witness ==
  /\ \A r \in Slots :
       /\ run[r].pc = "closed"
       /\ run[r].ev_end = 1
       /\ run[r].thread = "t1"
       /\ HasHuman(r)
       /\ HumanText(r) = TextA
  /\ Cardinality({ k \in 1..Len(chat_messages) : chat_messages[k].role = "human" }) = 1
  /\ Cardinality({ k \in 1..Len(chat_messages) : chat_messages[k].role = "ai" }) = 1

\* C9: the history operation returns exactly the thread's persisted messages
\* in the order in which they were persisted, each with the same text and
\* with type 'human' for a message saved as human and 'ai' for one saved as
\* assistant; an unknown thread or a thread without messages gives an empty
\* list.
PersistedOf(t) == SelectSeq(chat_messages, LAMBDA m : m.threadId = t)

C9_HistoryRoundTrip ==
  history_response.thread # None =>
    LET rows == PersistedOf(history_response.thread)
        body == history_response.body
    IN IF rows = <<>>
         THEN body = <<>>
         ELSE /\ Len(body) = 1
              /\ Len(body[1].messages) = Len(rows)
              /\ \A k \in 1..Len(rows) :
                   /\ body[1].messages[k].content = <<[type |-> "text", text |-> rows[k].content]>>
                   /\ rows[k].role = "human" => body[1].messages[k].type = "human"
                   /\ rows[k].role = "ai" => body[1].messages[k].type = "ai"

C9_Witness ==
  /\ history_response.thread = "t1"
  /\ Len(history_response.body) = 1
  /\ Len(history_response.body[1].messages) = 2
  /\ history_response.body[1].messages[1].type = "human"
  /\ history_response.body[1].messages[2].type = "ai"
  /\ PersistedOf("t2") # <<>>

-----------------------------------------------------------------------------
(* Claims about the stored rows                                             *)

IsPrefix(old, new) ==
  /\ Len(new) >= Len(old)
  /\ SubSeq(new, 1, Len(old)) = old

RowsKept ==
  /\ IsPrefix(chat_messages, chat_messages')
  /\ IsPrefix(agent_messages, agent_messages')

\* C10: no operation of the conversation server or of the fallback agent
\* modifies or deletes a stored ChatMessage or AgentMessage; the only in-place
\* change to a ChatThread is setting userId when it was null, and once a
\* thread's userId is non-null it never changes.
C10_AppendOnly ==
  [][/\ RowsKept
     /\ \A t \in Threads :
          chat_threads[t] # Absent =>
            \/ chat_threads'[t] = chat_threads[t]
            \/ chat_threads[t] = None /\ chat_threads'[t] # Absent]_vars

\* C10 as the code has it: the rows of both message tables are only ever
\* appended to; a ChatThread row is never removed and its userId changes only
\* from null or the empty string to a non-empty user id, which then stays.
C10_AppendOnlyUnsetOwner ==
  [][/\ RowsKept
     /\ \A t \in Threads :
          chat_threads[t] # Absent =>
            \/ chat_threads'[t] = chat_threads[t]
            \/ /\ chat_threads[t] \in {None, ""}
               /\ chat_threads'[t] \in Users]_vars

C10_Witness ==
  /\ chat_threads["t1"] \in Users
  /\ \E r \in Slots : /\ run[r].pc = "closed"
                      /\ run[r].thread = "t1"
                      /\ run[r].ai_saved
                      /\ run[r].session_id = None
  /\ \E k \in 1..Len(chat_messages) : chat_messages[k].role = "human"
  /\ \E k \in 1..Len(agent_messages) :
       agent_messages[k].role = "user" /\ agent_messages[k].content = TextA
  /\ \E k \in 1..Len(agent_messages) : agent_messages[k].content = Greeting

-----------------------------------------------------------------------------
\* C11: within one run every underlying message (uid) keeps one id through
\* all the snapshots sent to the client that contain it, and the ids inside a
\* snapshot are pairwise distinct.
C11_StableDistinctIds ==
  LET sent == stream_view.snapshots
  IN /\ \A j, k \in 1..Len(sent) :
          \A a \in 1..Len(sent[j]), b \in 1..Len(sent[k]) :
            sent[j][a].uid = sent[k][b].uid => sent[j][a].id = sent[k][b].id
     /\ \A j \in 1..Len(sent) :
          \A a, b \in 1..Len(sent[j]) : a # b => sent[j][a].id # sent[j][b].id

-----------------------------------------------------------------------------
\* the turn the last response of the fallback agent belongs to: its session
\* and the text the user sent
TurnIntents == {"generate_summary", "framework_info", "risk_score", "chat"}
TurnRow ==
  agent_messages[IF agent_response.raised = {} THEN Len(agent_messages) - 1
                 ELSE Len(agent_messages)]

\* C12: a fallback-agent turn whose text holds 'generate' and 'summary', on a
\* session with an attached plan, ends with the plan's summary set to a
\* non-empty text and the plan's status and completed_at as they were.
C12_SummarySaved ==
  agent_response.intent = "generate_summary" =>
    \A p \in PlanOfSession(TurnRow.sessionId) :
      /\ plans[p].summary # {}
      /\ \A text \in plans[p].summary : text # <<>>
      /\ plans[p].status = SeedPlans[p].status
      /\ plans[p].completed_at = SeedPlans[p].completed_at

\* C13: the intent is chosen by the first matching rule over the lower-cased
\* text: generate and summary, else framework, else risk or score, else chat;
\* exactly one intent is returned and the reply (or the failure) is the one of
\* that intent's branch.
C13_Expected(content) ==
  LET l == Lower(content)
      rules ==
        << [hit |-> Contains(l, << "g", "e", "n", "e", "r", "a", "t", "e" >>)
                      /\ Contains(l, << "s", "u", "m", "m", "a", "r", "y" >>),
            intent |-> "generate_summary"],
           [hit |-> Contains(l, << "f", "r", "a", "m", "e", "w", "o", "r", "k" >>),
            intent |-> "framework_info"],
           [hit |-> Contains(l, << "r", "i", "s", "k" >>)
                      \/ Contains(l, << "s", "c", "o", "r", "e" >>),
            intent |-> "risk_score"] >>
      hits == { k \in 1..Len(rules) : rules[k].hit }
  IN IF hits = {} THEN "chat"
     ELSE rules[CHOOSE k \in hits : \A j \in hits : k <= j].intent

C13_BranchOf(response) ==
  IF response.raised # {}
    THEN IF response.raised = {"NameError"} THEN {"generate_summary"} ELSE {"chat"}
  ELSE IF response.message \in {NoPlanReply, GeneratedReply} THEN {"generate_summary"}
  ELSE IF response.message[1] = "Framework info: " THEN {"framework_info"}
  ELSE IF response.message = NoThreatsReply \/ response.message[1] = "Risk scoring results:"
    THEN {"risk_score"}
  ELSE {"chat"}

C13_IntentPriority ==
  agent_response.intent \in TurnIntents =>
    /\ TurnRow.role = "user"
    /\ agent_response.intent = C13_Expected(TurnRow.content)
    /\ C13_BranchOf(agent_response) = {agent_response.intent}

\* a text with 'framework' and 'score' is answered by the framework branch
C13_Witness ==
  /\ agent_response.intent = "framework_info"
  /\ TurnRow.content = AskFrameworkScore
  /\ agent_response.message[1] = "Framework info: "

\* C14: a failure of the summary generation never aborts the turn, in the
\* tool of the tool-calling agent and in the fallback agent alike: the call
\* returns a text, and a failed generation leaves the plan's summary as it was.
C14_SummaryFailureContained ==
  agent_response.intent \in {"generate_summary", "tool"} =>
    /\ agent_response.raised = {}
    /\ agent_response.message # <<>>

-----------------------------------------------------------------------------
\* C15: get_context_for_question never hands a retrieval failure to its
\* caller: whether the vector index is unavailable, its search raises or an
\* ontology query raises, the call returns a text.
C15_RetrievalFailureContained ==
  kb_out.call = "context" => (kb_out.raised = {} /\ kb_out.parts # <<>>)

C16_Mentions(kind, key) ==
  \E p \in 1..Len(kb_out.parts) : kb_out.parts[p].kind = kind /\ kb_out.parts[p].key = key

\* C16: the keywords extracted from the question are alternatives: every
\* framework, control or threat with a searched column that contains one of
\* them (case-insensitively) is part of the returned context.
C16_KeywordsAreAlternatives ==
  (kb_out.call = "context" /\ kb_out.raised = {}) =>
    LET keywords == Keywords(kb_out.question)
        Has(column) == \E k \in 1..Len(keywords) : ILike(column, keywords[k])
    IN keywords # <<>> =>
         /\ \A f \in FrameworkIds :
              (Has(FrameworkRow(f).name) \/ Has(FrameworkRow(f).description))
                => C16_Mentions("framework", f)
         /\ \A c \in controls :
              (\/ Has(ControlRow(c).title) \/ Has(ControlRow(c).description)
               \/ Has(ControlRow(c).reference) \/ Has(ControlRow(c).category))
                => C16_Mentions("control", c)
         /\ \A t \in ThreatIds :
              (\/ Has(ThreatRow(t).name) \/ Has(ThreatRow(t).description)
               \/ Has(ThreatRow(t).category))
                => C16_Mentions("threat", t)

\* C17: the placeholder 'No relevant context found.' is returned exactly when
\* there is no vector hit and the ontology contributed no row; otherwise the
\* vector hits come before the ontology context.
C17_PlaceholderIffNothingFound ==
  (kb_out.call = "context" /\ kb_out.raised = {}) =>
    LET parts == kb_out.parts
        rows == { p \in 1..Len(parts) : parts[p].kind \notin {"header", "text", "blank"} }
        vector == { p \in rows : parts[p].kind = "vector" }
    IN /\ (parts = << Part("text", "no_context", 26) >>) <=> (rows = {})
       /\ \A p \in vector, q \in rows \ vector : p < q

\* C18: a ControlMapping whose Control row is missing is skipped everywhere:
\* it gives no recommended control in the risk-score response, no line in the
\* ontology dump and no row in the citations.
C18_OrphanMappingsSkipped ==
  /\ risk_out.path = "endpoint" =>
       \A k \in 1..Len(risk_out.results) :
         \A j \in 1..Len(risk_out.results[k].recommended_controls) :
           risk_out.results[k].recommended_controls[j] \in controls
  /\ kb_out.call \in {"dump", "context"} =>
       \A p \in 1..Len(kb_out.parts) :
         kb_out.parts[p].kind = "mapping" => kb_out.parts[p].key \in controls
  /\ kb_out.call = "citations" =>
       \A p \in 1..Len(kb_out.parts) : kb_out.parts[p].control \in controls

\* the Threat an entry names: the row with the given id when an id is given,
\* else the row with exactly the given name; none otherwise
C19_Named(item) ==
  IF item.threatId # {} THEN { t \in ThreatIds : t = The(item.threatId) }
  ELSE IF item.name # {} THEN { t \in ThreatIds : ThreatRow(t).name = The(item.name) }
  ELSE {}

\* C19: the risk-score endpoint drops the entries that name no Threat and
\* answers with one result per remaining entry, in input order.
C19_UnresolvableDropped ==
  risk_out.path = "endpoint" =>
    LET kept == SelectSeq(risk_out.request, LAMBDA item : C19_Named(item) # {})
    IN /\ Len(risk_out.results) = Len(kept)
       /\ \A k \in 1..Len(kept) : {risk_out.results[k].threat} = C19_Named(kept[k])

\* a request whose first entry has an unknown id (and a known name) and whose
\* second entry resolves
C19_Witness ==
  /\ risk_out.path = "endpoint"
  /\ Len(risk_out.request) = 2
  /\ risk_out.request[1].threatId = {"T-unknown"}
  /\ risk_out.request[1].name = {PoisoningName}
  /\ C19_Named(risk_out.request[2]) # {}
  /\ Len(risk_out.results) = 1

\* the stored entries of one file in one namespace
C20_StoredFor(store, library_name, file_name) ==
  { e \in store : e.metadata.library = library_name /\ e.metadata.source = file_name }

\* the call split the file into n chunks and stored them in the library
C20_Stored(call, library_name, file_name, n) ==
  /\ call.library = library_name
  /\ PathName(call.file_path) = file_name
  /\ call.raised = {}
  /\ call.result =
       {[status |-> "success", library |-> library_name, file |-> file_name, chunks |-> n]}

\* C20: ingestion is idempotent per namespace and file: when a file was
\* ingested into a namespace and holds its `chunks` entries there, ingesting
\* it again into that namespace with the same chunk count stores nothing
\* twice (the file still has exactly `chunks` entries and the collection has
\* not grown), and the store does not reject the entries for being there
\* already.
C20_IdempotentIngestion ==
  [][ \A library_name \in LibraryNames, file_path \in FilePaths, n \in 0..MaxChunks :
        LET file_name == PathName(file_path)
            k == Len(ingest_log)
            first == ingest_log[k]
            second == ingest_log'[k + 1]
        IN ( /\ k > 0
             /\ Len(ingest_log') = k + 1
             /\ C20_Stored(first, library_name, file_name, n)
             /\ Cardinality(C20_StoredFor(collection, library_name, file_name)) = n
             /\ second.library = library_name
             /\ PathName(second.file_path) = file_name
             /\ second.documents = {n}
             /\ second.raised # {"embed_documents"} )
           => /\ (n > 0 => C20_Stored(second, library_name, file_name, n))
              /\ Cardinality(C20_StoredFor(collection', library_name, file_name)) = n
              /\ Cardinality(collection') = Cardinality(collection) ]_vars

\* a file of two chunks was ingested twice in a row into the same namespace
C20_Witness ==
  /\ Len(ingest_log) >= 2
  /\ C20_Stored(ingest_log[Len(ingest_log) - 1], << "a" >>, FileC, 2)
  /\ C20_Stored(ingest_log[Len(ingest_log)], << "a" >>, FileC, 2)
  /\ Cardinality(C20_StoredFor(collection, << "a" >>, FileC)) = 2

\* the batch answered with a tally
C21_Tallied ==
  \/ library_out.route = "upload_directory" /\ library_out.status = 200
  \/ library_out.route = "train_documents" /\ library_out.exit = {}

\* C21: a batch that reached its loop processed every file of the directory,
\* whatever happened to the files before it, counted each file once as
\* successful or failed (successful + failed = number of files) and lists an
\* error for each failed file.
C21_BatchIsolatesFailures ==
  C21_Tallied =>
    LET files == library_out.files
        n == Len(files)
        base == Len(ingest_log) - n
        bad == { k \in 1..n : ingest_log[base + k].raised # {} }
    IN /\ base >= 0
       /\ \A k \in 1..n : ingest_log[base + k].file_path = files[k]
       /\ library_out.successful + library_out.failed = n
       /\ library_out.failed = Cardinality(bad)
       /\ Len(library_out.errors) = Cardinality(bad)
       /\ \A k \in bad :
            \E j \in 1..Len(library_out.errors) :
              /\ library_out.errors[j].file = files[k]
              /\ library_out.errors[j].error = The(ingest_log[base + k].raised)
              /\ j = Cardinality({ b \in bad : b <= k })

\* the first file of a batch failed and the second was stored
C21_Witness ==
  /\ C21_Tallied
  /\ Len(library_out.files) = 2
  /\ library_out.failed = 1
  /\ library_out.successful = 1
  /\ ingest_log[Len(ingest_log) - 1].raised # {}
  /\ ingest_log[Len(ingest_log)].raised = {}
  /\ \E e \in collection : e.metadata.source = PathName(library_out.files[2])

\* C22: a delete_library(L) that reports success leaves no entry tagged L,
\* L is not among the listed libraries afterwards, every entry of another
\* library is still stored as it was, and when L had no entry nothing
\* changes.
C22_DeleteNamespace ==
  [][ (library_out'.route = "delete_library" /\ library_out'.status = 200) =>
        LET L == library_out'.library
            listed == LibrariesOf(collection')
        IN /\ \A e \in collection' : e.metadata.library # L
           /\ \A k \in 1..Len(listed) : listed[k] # L
           /\ \A e \in collection : e.metadata.library # L => e \in collection'
           /\ collection' \subseteq collection ]_vars

\* library "a" held entries and was deleted while "a_b" holds entries
C22_Witness ==
  /\ library_out.route = "delete_library"
  /\ library_out.status = 200
  /\ library_out.library = << "a" >>
  /\ \E k \in 1..Len(ingest_log) :
       /\ ingest_log[k].library = << "a" >>
       /\ ingest_log[k].raised = {}
  /\ \E e \in collection : e.metadata.library = << "a", "_", "b" >>

\* C23: a search restricted to a library answers with entries of that
\* library only, at most n_results of them and as many as there are up to
\* that number, so with an empty list when the library holds nothing (it was
\* never filled or was deleted); without a library it draws on all entries.
\* The store never fails a search: a failing search failed before the store
\* was asked.
C23_SearchByNamespace ==
  library_out.route = "search" =>
    /\ library_out.status = 500 => library_out.raised \in {"DocumentLoader", "embed_query"}
    /\ library_out.status = 200 =>
         LET results == library_out.results
             library == library_out.library
             scope == IF library = {} \/ library = {<<>>} THEN collection
                      ELSE { e \in collection : e.metadata.library = The(library) }
         IN /\ \A k \in 1..Len(results) : results[k] \in scope
            /\ \A j, k \in 1..Len(results) : results[j] = results[k] => j = k
            /\ Len(results) <= library_out.n_results
            /\ Len(results) = min(library_out.n_results, Cardinality(scope))
            /\ library_out.count = Len(results)

\* library "a" was filled, holds nothing now, and a search in it answers
\* with an empty list while other entries are stored
C23_Witness ==
  /\ library_out.route = "search"
  /\ library_out.status = 200
  /\ library_out.library = {<< "a" >>}
  /\ library_out.results = <<>>
  /\ collection # {}
  /\ \E k \in 1..Len(ingest_log) :
       /\ ingest_log[k].library = << "a" >>
       /\ ingest_log[k].raised = {}

\* C24: a run re-invokes the agent exactly when its stream was
\* exhausted and no AIMessage with non-empty text went through it.
C24_RecoveryIffNoText ==
  \A r \in Slots :
    run[r].pc # "idle" =>
      ((run[r].invocations = 2) <=> (run[r].exhausted /\ ~run[r].streamed_text))

\* the text of the AIMessage the stream showed last, '' when it showed none
C24_LastStreamedText(rec) ==
  IF rec.last_assistant_message = {} THEN <<>>
  ELSE AccumulatedOf(The(rec.last_assistant_message).content)

C24_Step(r) ==
  /\ run'[r].invocations <= 2
  /\ (run[r].pc = "astream" /\ ~run[r].exhausted /\ run'[r].exhausted) =>
       ((run'[r].pc = "ainvoke" /\ run'[r].invocations = 2)
          <=> C24_LastStreamedText(run[r]) = <<>>)
  /\ (run'[r].invocations = 2 /\ run[r].invocations # 2) =>
       (run[r].pc = "astream" /\ run'[r].exhausted)
  /\ (run[r].pc \in {"ainvoke", "yield_final"} /\ run'[r].ev_end # run[r].ev_end) =>
       /\ run[r].pc = "yield_final"
       /\ run[r].ev_last = "values"
       /\ run[r].last_assistant_message = run[r].state.lastAI
  /\ (run[r].pc = "yield_final" /\ chat_messages' # chat_messages) =>
       /\ Len(chat_messages') = Len(chat_messages) + 1
       /\ SubSeq(chat_messages', 1, Len(chat_messages)) = chat_messages
       /\ chat_messages'[Len(chat_messages')].role = "ai"
       /\ chat_messages'[Len(chat_messages')].threadId = run[r].thread
       /\ chat_messages'[Len(chat_messages')].content =
            extract_text(The(run[r].state.lastAI).content)

\* C24, amended: when the stream is exhausted the run re-invokes the agent
\* once exactly when the AIMessage the stream showed last has no text (or the
\* stream showed none); the final state of the re-invocation is sent as a
\* 'values' event before 'end', and the ChatMessage stored after it, if one
\* is stored, holds the text of that state's last AIMessage.  The agent is
\* invoked at most twice in a run.
C24_RecoveryIffLastTextEmpty == [][\A r \in Slots : C24_Step(r)]_vars

\* the stream showed text, ended on an AIMessage without text, and the reply
\* of the re-invocation was stored and 'end' sent
C24_Witness ==
  \E r \in Slots :
    /\ run[r].streamed_text
    /\ run[r].invocations = 2
    /\ run[r].ai_saved
    /\ run[r].ev_end = 1
    /\ run[r].pc = "yield_last"

\* C25: under any interleaving of run requests on one thread id the map holds
\* one agent instance for the thread: an entry, once made, is never replaced,
\* and every request that has passed the lookup holds the instance of the map.
C25_OneInstancePerThread ==
  [][/\ \A t \in Threads :
          agent_graphs[t] # 0 => agent_graphs'[t] = agent_graphs[t]
     /\ \A r \in Slots :
          run'[r].pc # "idle" =>
            /\ run'[r].agent_graph # 0
            /\ run'[r].agent_graph = agent_graphs'[run'[r].thread]]_vars

\* two requests in flight on one thread at the same time
C25_Witness ==
  /\ \A r \in Slots : run[r].pc \in {"astream", "ainvoke", "yield_final"}
  /\ \A r \in Slots : run[r].thread = "t1" /\ run[r].agent_graph = agent_graphs["t1"]
  /\ agent_graphs["t1"] # 0

\* C26: every thread id that POST /threads has returned has a ChatThread
\* row, whether or not the request carried a user id.
C26_CreatedThreadsPersisted ==
  \A t \in thread_ids : chat_threads[t] # Absent

\* C27: a run request answered with HTTP 400 for having no messages leaves
\* the thread-to-agent map, the ChatThread rows and the stored messages as
\* they were.
C27_RejectedRunChangesNothing ==
  [][\A r \in Slots :
       (run'[r] # run[r] /\ run'[r].pc = "rejected") =>
         /\ agent_graphs' = agent_graphs
         /\ chat_threads' = chat_threads
         /\ chat_messages' = chat_messages
         /\ agent_messages' = agent_messages
         /\ agent_sessions' = agent_sessions]_vars

\* the chunk indices a call stored, none when it raised
C28_ChunksOf(call) ==
  IF call.result = {} THEN {} ELSE 0..(The(call.documents) - 1)

\* C28: two chunks that differ in namespace, source file or chunk index are
\* stored under different ids.
C28_UniqueChunkIds ==
  \A j, k \in 1..Len(ingest_log) :
    \A i1 \in C28_ChunksOf(ingest_log[j]), i2 \in C28_ChunksOf(ingest_log[k]) :
      <<ingest_log[j].library, ingest_log[j].file_path, i1>>
          # <<ingest_log[k].library, ingest_log[k].file_path, i2>>
        => ChunkId(ingest_log[j].library, PathName(ingest_log[j].file_path), i1)
             # ChunkId(ingest_log[k].library, PathName(ingest_log[k].file_path), i2)

\* C29: for every (namespace, source file) in the index the stored chunks
\* carry one total_chunks value and the chunk_index values 0..total_chunks-1.
C29_ChunkSetsComplete ==
  \A e \in collection :
    LET same == { x \in collection : /\ x.metadata.library = e.metadata.library
                                    /\ x.metadata.source = e.metadata.source }
    IN /\ \A x \in same : x.metadata.total_chunks = e.metadata.total_chunks
       /\ { x.metadata.chunk_index : x \in same } = 0..(e.metadata.total_chunks - 1)

\* C30: when the last seed invocation of every process that made one has
\* returned, and so any interrupted invocation was followed by a later one,
\* the tables hold exactly the full seed set: 4 frameworks with their
\* prompts, 8 controls, 7 threats and 12 mappings, none of them twice.
C30_SeedAllOrNothing ==
  (/\ \A p \in Processes : seeders[p] \in {"idle", "returned"}
   /\ \E p \in Processes : seeders[p] = "returned")
    => seed_tables = FullOntology

=============================================================================
